---- MODULE Spec2Model ----
(***************************************************************************)
(* Model of the modular simulator scheduler and its builder                *)
(* (src/gromacs/modularsimulator/simulatoralgorithm.cpp).                  *)
(*                                                                         *)
(* A Step is a 64-bit signed integer in the code.  It is represented here  *)
(* as a record [hi, lo] standing for hi * 2^31 + lo with 0 <= lo < 2^31,   *)
(* so that steps beyond the range of a 32-bit int can be written down.     *)
(***************************************************************************)
EXTENDS Integers, Sequences, FiniteSets, TLC

\* ------------------------------------------------------------------ bounds
\* Largest number of steps (nsteps) of a run.
MaxNSteps == 5
\* Largest neighbour-search interval (nstlist).
MaxNstlist == 3
\* Largest number of elements submitted to a builder.
MaxElements == 3
\* Largest number of build() calls on one builder.
MaxBuildCalls == 2
\* Largest number of getNextTask calls made after the terminal value.
MaxExtraCalls == 2
\* Largest number of steps of a run that is made twice.
MaxTwinSteps == 3
\* Largest number of addElementToSetupTeardownList calls on one builder.
MaxSetupTeardownCalls == 3

\* ------------------------------------------------------- program constants
\* Largest value of a 32-bit int (2^31 - 1).
IntMax == 2147483647

\* ----------------------------------------------------------------- steps
MkStep(hi, lo) == [hi |-> hi, lo |-> lo]

\* A slip: the step counter advances by two.
StepIncByTwo(s) == [hi |-> s.hi, lo |-> s.lo + 2]

\* step + 1
StepInc(s) ==
    IF s.lo = IntMax THEN [hi |-> s.hi + 1, lo |-> 0]
    ELSE [hi |-> s.hi, lo |-> s.lo + 1]

\* a < b
StepLess(a, b) == a.hi < b.hi \/ (a.hi = b.hi /\ a.lo < b.lo)

\* a <= b
StepLeq(a, b) == a = b \/ StepLess(a, b)

\* a - b
StepMinus(a, b) ==
    IF a.lo >= b.lo THEN [hi |-> a.hi - b.hi, lo |-> a.lo - b.lo]
    ELSE [hi |-> a.hi - b.hi - 1, lo |-> ((a.lo - b.lo) + IntMax) + 1]

\* a + n for a small n >= 0
RECURSIVE StepPlus(_, _)
StepPlus(s, n) == IF n = 0 THEN s ELSE StepPlus(StepInc(s), n - 1)

\* 2^31 mod n
TwoTo31Mod(n) == ((IntMax % n) + 1) % n

\* step mod n
StepMod(s, n) == (((s.hi % n) * TwoTo31Mod(n)) + (s.lo % n)) % n

\* `const int step = step_;`: the conversion of a Step to int and back,
\* i.e. the value reduced modulo 2^32 into [-2^31, 2^31).
ToInt(s) == [hi |-> ((s.hi + 1) % 2) - 1, lo |-> s.lo]

\* do_per_step(step, nstep)
do_per_step(s, n) == IF n /= 0 THEN StepMod(s, n) = 0 ELSE FALSE

\* SignalHelper::lastStep_ before any last-step callback:
\* std::numeric_limits<Step>::max(), larger than every step of the model.
StepMaxValue == MkStep(IntMax, IntMax)

\* SignalHelper::nextNSStep_ before any neighbour-search callback: -1.
StepMinusOne == MkStep(-1, IntMax)

\* ------------------------------------------------------------ sequences
Reverse(s) == [i \in 1..Len(s) |-> s[Len(s) + 1 - i]]

Range(s) == {s[i] : i \in 1..Len(s)}

RECURSIVE Flatten(_)
Flatten(ss) == IF ss = <<>> THEN <<>> ELSE Head(ss) \o Flatten(Tail(ss))

IsPrefix(p, s) == Len(p) <= Len(s) /\ SubSeq(s, 1, Len(p)) = p

\* ------------------------------------------------------------------ state
VARIABLES
    \* run configuration and environment
    inputrec,                \* init_step, nsteps, nstlist, init_t, delta_t, efep
    useDomDec,               \* DOMAINDECOMP(cr)
    usePmeLB,                \* PmeLoadBalanceHelper::doPmeLoadBalancing(...)
    checkedIterators,        \* the build aborts on a misused vector iterator
    stopCondition,           \* stop handler: "none", "nextNS" or "next"
    \* ModularSimulatorAlgorithmBuilder
    algorithmHasBeenBuilt_,
    elements_,
    callList_,
    thermostatRegistrationFunctions_,
    barostatRegistrationFunctions_,
    propagatorThermostatConnections_,
    propagatorBarostatConnections_,
    checkBondedInteractionsCallback_,
    \* what the calls of build() did
    buildCalls,              \* number of build() calls so far
    buildResult,             \* outcome of the latest build() call
    buildLog,                \* calls made by build(), in order
    connected,               \* controllers whose registration found a propagator
    \* ModularSimulatorAlgorithm
    instance,                \* build() has returned an algorithm
    step_,
    runFinished_,
    taskQueue_,
    taskIterator_,           \* offset of the iterator from taskQueue_.begin()
    iteratorInvalidated,     \* taskQueue_ was cleared under taskIterator_
    signalHelper_,           \* lastStep_, nextNSStep_
    lastStepSignaller,       \* nextNSStep_, signalledStopCondition_ of the signaller
    signallerList_,
    elementCallList_,
    elementsOwnershipList_,
    stophandlerCurrentStep_,
    stophandlerIsNSStep_,
    handlerCalls,            \* calls made to the stop and reset handlers: the steps
                             \* and answers of the stoppingAfterCurrentStep queries
                             \* of preStep,
                             \* the numbers of setSignal calls, and what the latest
                             \* stopHandler_->setSignal() read through its references
                             \* to stophandlerCurrentStep_ and stophandlerIsNSStep_
    \* the driver and what it has seen
    lastReturn,              \* result of the latest getNextTask call
    pending,                 \* the returned task has not been run yet
    alive,                   \* the process has neither aborted nor run garbage
    terminalSeen,            \* getNextTask has returned nullptr
    teardownReturned,        \* getNextTask has returned a teardown task
    extraCalls,              \* getNextTask calls made after the first nullptr
    signalLog,               \* signallers called while the latest batch was generated
    populateLog,             \* calls made by the latest populateTaskQueue, in order
    batchLog,                \* the batches generated so far
    rewind,                  \* latest batch discard by a pre-step task
    postStepLog,             \* steps whose post-step task has run, in order
    teardownLog,             \* calls made by the teardown task, in order
    twin,                    \* what an instance built and run earlier with the
                             \* same configuration generated
    \* ModularSimulatorAlgorithmBuilder, continued
    setupAndTeardownList_,
    storedLog,               \* elements given to addElementToSimulatorAlgorithm so
                             \* far, in order
    setupTeardownCalls       \* elements given to addElementToSetupTeardownList so
                             \* far, in order

confVars == <<inputrec, useDomDec, usePmeLB, checkedIterators>>

builderVars == <<algorithmHasBeenBuilt_, elements_, callList_,
                 thermostatRegistrationFunctions_, barostatRegistrationFunctions_,
                 propagatorThermostatConnections_, propagatorBarostatConnections_,
                 checkBondedInteractionsCallback_>>

buildObsVars == <<buildCalls, buildResult, buildLog, connected>>

algorithmVars == <<instance, step_, runFinished_, taskQueue_, taskIterator_,
                   iteratorInvalidated, signalHelper_, lastStepSignaller,
                   signallerList_, elementCallList_, elementsOwnershipList_,
                   stophandlerCurrentStep_, stophandlerIsNSStep_, handlerCalls>>

driverVars == <<lastReturn, pending, alive, terminalSeen, teardownReturned,
                extraCalls, signalLog, populateLog, batchLog, rewind, postStepLog,
                teardownLog>>

setupTeardownVars == <<setupAndTeardownList_, setupTeardownCalls>>

vars == <<confVars, stopCondition, builderVars, buildObsVars, algorithmVars, driverVars,
          twin, storedLog, setupTeardownVars>>

\* --------------------------------------------------- elements and stages
\* The stages an element can be.
ElementTypes == {"propagator", "thermostat", "barostat"}

\* Propagator tags, by which a controller names the propagator it controls.
Tags == {"t1", "t2"}

\* An element object; id stands for its address.
MkElement(type, tag, id) == [type |-> type, tag |-> tag, id |-> id]

CheckpointHelper == MkElement("checkpointHelper", "-", 0)
FreeEnergyElement == MkElement("freeEnergy", "-", -1)
TrajectoryElement == MkElement("trajectory", "-", -2)

\* Order in which build() builds the signallers.
SignallerBuildOrder ==
    <<"energy", "trajectory", "logging", "lastStep", "neighborSearch">>

\* ------------------------------------------- ModularSimulatorAlgorithmBuilder
\* ModularSimulatorAlgorithmBuilder::addElementToSimulatorAlgorithm
addElementToSimulatorAlgorithm(elements, element) == Append(elements, element)

\* ModularSimulatorAlgorithmBuilderHelper::storeElement
storeElement(elements, element) == addElementToSimulatorAlgorithm(elements, element)

\* ModularSimulatorAlgorithmBuilderHelper::registerThermostat
registerThermostat(functions, registrationFunction) ==
    Append(functions, registrationFunction)

\* ModularSimulatorAlgorithmBuilderHelper::registerBarostat
registerBarostat(functions, registrationFunction) ==
    Append(functions, registrationFunction)

\* ModularSimulatorAlgorithmBuilderHelper::registerWithThermostat
registerWithThermostat(connections, connectionData) ==
    Append(connections, connectionData)

\* ModularSimulatorAlgorithmBuilderHelper::registerWithBarostat
registerWithBarostat(connections, connectionData) ==
    Append(connections, connectionData)

\* The address a new element gets.
NewId == Len(elements_) + 1

\* A propagator is added: it is stored, put in the call list, and submits a
\* connection record for the thermostat and/or the barostat.
AddPropagator(tag, toThermostat, toBarostat) ==
    LET e == MkElement("propagator", tag, NewId) IN
    /\ ~algorithmHasBeenBuilt_
    /\ Len(elements_) < MaxElements
    /\ elements_' = storeElement(elements_, e)
    /\ callList_' = Append(callList_, e)
    /\ storedLog' = Append(storedLog, e)
    /\ propagatorThermostatConnections_' =
           IF toThermostat
           THEN registerWithThermostat(propagatorThermostatConnections_,
                                       [tag |-> tag, propagator |-> e])
           ELSE propagatorThermostatConnections_
    /\ propagatorBarostatConnections_' =
           IF toBarostat
           THEN registerWithBarostat(propagatorBarostatConnections_,
                                     [tag |-> tag, propagator |-> e])
           ELSE propagatorBarostatConnections_
    /\ UNCHANGED <<algorithmHasBeenBuilt_, thermostatRegistrationFunctions_,
                   barostatRegistrationFunctions_, checkBondedInteractionsCallback_>>
    /\ UNCHANGED <<confVars, stopCondition, buildObsVars, algorithmVars, driverVars,
                   twin, setupTeardownVars>>

\* A thermostat is added: it is stored, put in the call list, and submits the
\* function that connects it to the propagator with the given tag.
AddThermostat(tag) ==
    LET e == MkElement("thermostat", tag, NewId) IN
    /\ ~algorithmHasBeenBuilt_
    /\ Len(elements_) < MaxElements
    /\ elements_' = storeElement(elements_, e)
    /\ callList_' = Append(callList_, e)
    /\ storedLog' = Append(storedLog, e)
    /\ thermostatRegistrationFunctions_' =
           registerThermostat(thermostatRegistrationFunctions_,
                              [controller |-> e, tag |-> tag])
    /\ UNCHANGED <<algorithmHasBeenBuilt_, barostatRegistrationFunctions_,
                   propagatorThermostatConnections_, propagatorBarostatConnections_,
                   checkBondedInteractionsCallback_>>
    /\ UNCHANGED <<confVars, stopCondition, buildObsVars, algorithmVars, driverVars,
                   twin, setupTeardownVars>>

\* A barostat is added, likewise.
AddBarostat(tag) ==
    LET e == MkElement("barostat", tag, NewId) IN
    /\ ~algorithmHasBeenBuilt_
    /\ Len(elements_) < MaxElements
    /\ elements_' = storeElement(elements_, e)
    /\ callList_' = Append(callList_, e)
    /\ storedLog' = Append(storedLog, e)
    /\ barostatRegistrationFunctions_' =
           registerBarostat(barostatRegistrationFunctions_,
                            [controller |-> e, tag |-> tag])
    /\ UNCHANGED <<algorithmHasBeenBuilt_, thermostatRegistrationFunctions_,
                   propagatorThermostatConnections_, propagatorBarostatConnections_,
                   checkBondedInteractionsCallback_>>
    /\ UNCHANGED <<confVars, stopCondition, buildObsVars, algorithmVars, driverVars,
                   twin, setupTeardownVars>>

\* GlobalCommunicationHelper::setCheckBondedInteractionsCallback.  The setter
\* does not look at algorithmHasBeenBuilt_: it can be called after a build().
setCheckBondedInteractionsCallback ==
    /\ ~checkBondedInteractionsCallback_
    /\ checkBondedInteractionsCallback_' = TRUE
    /\ UNCHANGED <<algorithmHasBeenBuilt_, elements_, callList_,
                   thermostatRegistrationFunctions_, barostatRegistrationFunctions_,
                   propagatorThermostatConnections_, propagatorBarostatConnections_>>
    /\ UNCHANGED <<confVars, stopCondition, buildObsVars, algorithmVars, driverVars,
                   twin, storedLog, setupTeardownVars>>


\* ------------------------------------------------- signallers and stop handler
\* StopHandler::stoppingAfterCurrentStep
stoppingAfterCurrentStep(isNeighborSearchingStep) ==
    \/ stopCondition = "next"
    \/ (stopCondition = "nextNS" /\ isNeighborSearchingStep)

\* SignalHelper::registerLastStepCallback: the callback sets lastStep_.
LastStepCallback(sh, step) == [sh EXCEPT !.lastStep_ = step]

\* A slip: the callback records the step after the one signalled.
NSCallbackOneLate(sh, step) == [sh EXCEPT !.nextNSStep_ = [hi |-> step.hi, lo |-> step.lo + 1]]

\* SignalHelper::registerNSCallback: the callback sets nextNSStep_.
NSCallback(sh, step) == [sh EXCEPT !.nextNSStep_ = step]

\* The step after which a run of nsteps steps ends (LastStepSignaller).
StopStep == StepPlus(inputrec.init_step, inputrec.nsteps)

\* NeighborSearchSignaller::signal: calls its clients on every nstlist-th step
\* and on the first step.  Its clients are the SignalHelper and the
\* LastStepSignaller.
SignalNeighborSearch(sig, step) ==
    IF do_per_step(step, inputrec.nstlist) \/ step = inputrec.init_step
    THEN [sig EXCEPT !.sh = NSCallback(sig.sh, step),
                     !.lss = [sig.lss EXCEPT !.nextNSStep_ = step]]
    ELSE sig

\* LastStepSignaller::signal: calls its clients on the final step of the run and
\* on the step at which the stop handler first wants to stop.
SignalLastStep(sig, step) ==
    IF sig.lss.signalledStopCondition_ THEN sig
    ELSE LET isNSStep == (step = sig.lss.nextNSStep_)
             stop == stoppingAfterCurrentStep(isNSStep)
         IN [sig EXCEPT !.sh = IF step = StopStep \/ stop
                              THEN LastStepCallback(sig.sh, step) ELSE sig.sh,
                        !.lss = [sig.lss EXCEPT !.signalledStopCondition_ = stop]]

\* ISignaller::signal of the signaller with the given name; the logging,
\* trajectory and energy signallers do not touch the scheduler's state.
Signal(name, sig, step) ==
    CASE name = "neighborSearch" -> SignalNeighborSearch(sig, step)
      [] name = "lastStep" -> SignalLastStep(sig, step)
      [] OTHER -> sig

\* A call made while a batch is generated, with the step and time it is given.
Call(call, name, id, step, time) ==
    [call |-> call, name |-> name, id |-> id, step |-> step, time |-> time]

\* The signaller state with one more call in its log of calls.
Logged(name, sig, log, step, time) ==
    [sh |-> sig.sh, lss |-> sig.lss,
     log |-> Append(log, Call("signal", name, 0, step, time))]

\* for (auto& signaller : signallerList_) signaller->signal(step_, time);
RECURSIVE SignalRound(_, _, _, _)
SignalRound(list, sig, step, time) ==
    IF list = <<>> THEN sig
    ELSE SignalRound(Tail(list),
                     Logged(Head(list), Signal(Head(list), sig, step), sig.log,
                            step, time),
                     step, time)

\* ------------------------------------------------------------------ tasks
\* A slip: the time is the start time whatever the step.
TimeOfInitialStep(step) == [hi |-> 0, lo |-> inputrec.init_t]

\* Time time = startTime + step_ * timeStep, in the representation of steps.
TimeOf(step) ==
    [hi |-> step.hi * inputrec.delta_t,
     lo |-> inputrec.init_t + step.lo * inputrec.delta_t]

PreStepTask(step, time, isNSStep) ==
    [kind |-> "preStep", step |-> step, time |-> time, isNSStep |-> isNSStep,
     element |-> CheckpointHelper, nr |-> 0]

PostStepTask(step, time) ==
    [kind |-> "postStep", step |-> step, time |-> time, isNSStep |-> FALSE,
     element |-> CheckpointHelper, nr |-> 0]

TeardownTask ==
    [kind |-> "teardown", step |-> MkStep(0, 0), time |-> MkStep(0, 0),
     isNSStep |-> FALSE, element |-> CheckpointHelper, nr |-> 0]

ElementTask(element, step, time, nr) ==
    [kind |-> "element", step |-> step, time |-> time, isNSStep |-> FALSE,
     element |-> element, nr |-> nr]

\* Number of tasks an element contributes for a step: the checkpoint helper acts
\* on the last step, the trajectory element on neighbour-search steps and the last
\* step, a thermostat on every second step, a barostat twice a step, every other
\* element once a step.
NrOfTasks(element, step, sh) ==
    CASE element.type = "checkpointHelper" -> IF step = sh.lastStep_ THEN 1 ELSE 0
      [] element.type = "trajectory" ->
            IF step = sh.lastStep_ \/ step = sh.nextNSStep_ THEN 1 ELSE 0
      [] element.type = "thermostat" -> IF step.lo % 2 = 0 THEN 1 ELSE 0
      [] element.type = "barostat" -> 2
      [] OTHER -> 1

\* ISimulatorElement::scheduleTask: the tasks the element registers.
scheduleTask(element, step, time, sh) ==
    [nr \in 1..NrOfTasks(element, step, sh) |-> ElementTask(element, step, time, nr)]

\* A slip: an instance built after another one asks its elements in reverse order.
ScheduleElementsByInstance(callList, step, time, sh) ==
    LET order == IF twin.run = 1 THEN callList ELSE Reverse(callList)
    IN Flatten([i \in 1..Len(order) |-> scheduleTask(order[i], step, time, sh)])

\* for (auto& element : elementCallList_) element->scheduleTask(step_, time, ...)
RECURSIVE ScheduleElements(_, _, _, _)
ScheduleElements(callList, step, time, sh) ==
    IF callList = <<>> THEN <<>>
    ELSE scheduleTask(Head(callList), step, time, sh)
         \o ScheduleElements(Tail(callList), step, time, sh)


\* ---------------------------------------------- ModularSimulatorAlgorithm
\* A call made by build(), setup() or populateTaskQueue() that is kept in a log.
Event(call, name, a, b) == [call |-> call, name |-> name, a |-> a, b |-> b]

\* A slip: the pre-step task of a step is registered twice.
ScheduleStepTwoPreSteps(queue, stepNow, time, sh, callList) ==
    LET step == ToInt(stepNow)
        isNSStep == (step = sh.nextNSStep_)
    IN Append(<<PreStepTask(step, time, isNSStep)>>
              \o Append(queue, PreStepTask(step, time, isNSStep))
              \o ScheduleElements(callList, stepNow, time, sh),
              PostStepTask(step, time))

\* A slip in the order of registration: the post-step task before the elements.
ScheduleStepPostFirst(queue, stepNow, time, sh, callList) ==
    LET step == ToInt(stepNow)
    IN Append(Append(queue, PreStepTask(step, time, step = sh.nextNSStep_)),
              PostStepTask(step, time))
       \o ScheduleElements(callList, stepNow, time, sh)

\* The tasks registered for one step in the loop of populateTaskQueue: the
\* pre-step task, the tasks of the elements, the post-step task.
ScheduleStep(queue, stepNow, time, sh, callList) ==
    LET step == ToInt(stepNow)
        isNSStep == (step = sh.nextNSStep_)
        queue1 == Append(queue, PreStepTask(step, time, isNSStep))
        queue2 == queue1 \o ScheduleElements(callList, stepNow, time, sh)
    IN Append(queue2, PostStepTask(step, time))

\* The calls made for one step in the loop of populateTaskQueue, in order: the
\* pre-step task is registered, every element of the call list is asked for its
\* tasks, the post-step task is registered.
ScheduleStepCalls(stepNow, time, callList) ==
    <<Call("registerRunFunction", "preStep", 0, ToInt(stepNow), time)>>
    \o [i \in 1..Len(callList) |->
           Call("scheduleTask", callList[i].type, callList[i].id, stepNow, time)]
    \o <<Call("registerRunFunction", "postStep", 0, ToInt(stepNow), time)>>

\* A slip: the loop goes on over the neighbour-search steps, up to the last step.
RECURSIVE PopulateLoopToLastStep(_, _, _, _, _, _, _)
PopulateLoopToLastStep(stepNow, time, sig, queue, rounds, signallers, callList) ==
    LET queue3 == ScheduleStep(queue, stepNow, time, sig.sh, callList)
        sigLogged == [sig EXCEPT !.log = @ \o ScheduleStepCalls(stepNow, time, callList)]
        stepNext == StepInc(stepNow)
        timeNext == TimeOf(stepNext)
        sigNext == SignalRound(signallers, sigLogged, stepNext, timeNext)
    IN IF StepLeq(stepNext, sigNext.sh.lastStep_)
       THEN PopulateLoopToLastStep(stepNext, timeNext, sigNext, queue3, rounds + 1,
                                   signallers, callList)
       ELSE [step_ |-> stepNext, time |-> timeNext, sig |-> sigNext,
             taskQueue_ |-> queue3, rounds |-> rounds + 1]

\* The body of the do-while loop of populateTaskQueue and its loop condition;
\* time is the local variable of that name.
RECURSIVE PopulateLoop(_, _, _, _, _, _, _)
PopulateLoop(stepNow, time, sig, queue, rounds, signallers, callList) ==
    LET queue3 == ScheduleStep(queue, stepNow, time, sig.sh, callList)
        sigLogged == [sig EXCEPT !.log = @ \o ScheduleStepCalls(stepNow, time, callList)]
        stepNext == StepInc(stepNow)
        timeNext == TimeOf(stepNext)
        sigNext == SignalRound(signallers, sigLogged, stepNext, timeNext)
    IN IF stepNext /= sigNext.sh.nextNSStep_ /\ StepLeq(stepNext, sigNext.sh.lastStep_)
       THEN PopulateLoop(stepNext, timeNext, sigNext, queue3, rounds + 1, signallers,
                         callList)
       ELSE [step_ |-> stepNext, time |-> timeNext, sig |-> sigNext,
             taskQueue_ |-> queue3, rounds |-> rounds + 1]

\* A slip: the helpers are run whether they exist or not.
HelperRunsAlways(step, time) ==
    <<Call("checkpointHelper.run", "-", 0, step, time),
      Call("pmeLoadBalanceHelper.run", "-", 0, step, time),
      Call("domDecHelper.run", "-", 0, step, time)>>

\* The helpers run at the start of a batch.
HelperRuns(step, time) ==
    <<Call("checkpointHelper.run", "-", 0, step, time)>>
    \o (IF usePmeLB THEN <<Call("pmeLoadBalanceHelper.run", "-", 0, step, time)>>
        ELSE <<>>)
    \o (IF useDomDec THEN <<Call("domDecHelper.run", "-", 0, step, time)>>
        ELSE <<>>)

\* A slip: a batch that starts at the last step gets no step, only the teardown
\* task.
populateTaskQueueEmptyAtLastStep(stepNow, sig, signallers, callList) ==
    LET time == TimeOf(stepNow)
        sig1 == SignalRound(signallers, [sig EXCEPT !.log = <<>>], stepNow, time)
        sig2 == [sig1 EXCEPT !.log = @ \o HelperRuns(stepNow, time)]
        loop == IF stepNow = sig1.sh.lastStep_
                THEN [step_ |-> StepInc(stepNow), time |-> time, sig |-> sig2,
                      taskQueue_ |-> <<>>, rounds |-> 1]
                ELSE PopulateLoop(stepNow, time, sig2, <<>>, 1, signallers, callList)
        finished == StepLess(loop.sig.sh.lastStep_, loop.step_)
    IN [step_ |-> loop.step_,
        sig |-> loop.sig,
        runFinished_ |-> finished,
        taskQueue_ |-> IF finished THEN Append(loop.taskQueue_, TeardownTask)
                       ELSE loop.taskQueue_,
        rounds |-> loop.rounds,
        helperRuns |-> HelperRuns(stepNow, time),
        log |-> loop.sig.log
                \o (IF finished
                    THEN <<Call("registerRunFunction", "teardown", 0, loop.step_,
                                loop.time)>>
                    ELSE <<>>)]

\* A slip: the initial call to the signallers is made twice.
populateTaskQueueTwoInitialRounds(stepNow, sig, signallers, callList) ==
    LET time == TimeOf(stepNow)
        sig0 == SignalRound(signallers, [sig EXCEPT !.log = <<>>], stepNow, time)
        sig1 == SignalRound(signallers, sig0, stepNow, time)
        sig2 == [sig1 EXCEPT !.log = @ \o HelperRuns(stepNow, time)]
        loop == PopulateLoop(stepNow, time, sig2, <<>>, 2, signallers, callList)
        finished == StepLess(loop.sig.sh.lastStep_, loop.step_)
    IN [step_ |-> loop.step_,
        sig |-> loop.sig,
        runFinished_ |-> finished,
        taskQueue_ |-> IF finished THEN Append(loop.taskQueue_, TeardownTask)
                       ELSE loop.taskQueue_,
        rounds |-> loop.rounds,
        helperRuns |-> HelperRuns(stepNow, time),
        log |-> loop.sig.log
                \o (IF finished
                    THEN <<Call("registerRunFunction", "teardown", 0, loop.step_,
                                loop.time)>>
                    ELSE <<>>)]

\* ModularSimulatorAlgorithm::populateTaskQueue, from step stepNow with the
\* signaller state sig: the new step_, signaller state, taskQueue_, runFinished_,
\* and the calls it made, in order.
populateTaskQueue(stepNow, sig, signallers, callList) ==
    LET time == TimeOf(stepNow)
        sig1 == SignalRound(signallers, [sig EXCEPT !.log = <<>>], stepNow, time)
        sig2 == [sig1 EXCEPT !.log = @ \o HelperRuns(stepNow, time)]
        loop == PopulateLoop(stepNow, time, sig2, <<>>, 1, signallers, callList)
        finished == StepLess(loop.sig.sh.lastStep_, loop.step_)
    IN [step_ |-> loop.step_,
        sig |-> loop.sig,
        runFinished_ |-> finished,
        taskQueue_ |-> IF finished THEN Append(loop.taskQueue_, TeardownTask)
                       ELSE loop.taskQueue_,
        rounds |-> loop.rounds,
        helperRuns |-> HelperRuns(stepNow, time),
        log |-> loop.sig.log
                \o (IF finished
                    THEN <<Call("registerRunFunction", "teardown", 0, loop.step_,
                                loop.time)>>
                    ELSE <<>>)]

\* The names of the signallers called, in order, in a log of calls.
IsSignal(call) == call.call = "signal"

SignalNames(log) ==
    LET signals == SelectSeq(log, IsSignal)
    IN [i \in 1..Len(signals) |-> signals[i].name]

\* A controller that was not connected to a propagator refuses to be set up.
ElementSetupThrows(element, conn) ==
    element.type \in {"thermostat", "barostat"} /\ element \notin conn

\* Index of the first element of the list whose setup throws, 0 if none does.
FirstThrowing(list, conn) ==
    LET bad == {i \in 1..Len(list) : ElementSetupThrows(list[i], conn)}
    IN IF bad = {} THEN 0 ELSE CHOOSE i \in bad : \A j \in bad : i <= j

\* A slip: setup() does not call elementSetup on the elements it owns.
setupWithoutElements(signallers, ownership, conn) ==
    [throws |-> FALSE,
     log |->
        <<Event("simulatorSetup", "-", 0, 0)>>
        \o [i \in 1..Len(signallers) |-> Event("signaller.setup", signallers[i], i, 0)]
        \o (IF useDomDec THEN <<Event("domDecHelper.setup", "-", 0, 0)>> ELSE <<>>)
        \o <<Event("statePropagatorData.setup", "-", 0, 0)>>
        \o (IF usePmeLB THEN <<Event("pmeLoadBalanceHelper.setup", "-", 0, 0)>>
            ELSE <<>>)]

\* ModularSimulatorAlgorithm::setup: the setup calls made, in order, up to and
\* including one that throws, and whether one throws.
setup(signallers, ownership, conn) ==
    LET k == FirstThrowing(ownership, conn)
        n == IF k = 0 THEN Len(ownership) ELSE k
    IN [throws |-> (k /= 0),
        log |->
           <<Event("simulatorSetup", "-", 0, 0)>>
           \o [i \in 1..Len(signallers) |->
                  Event("signaller.setup", signallers[i], i, 0)]
           \o (IF useDomDec THEN <<Event("domDecHelper.setup", "-", 0, 0)>> ELSE <<>>)
           \o [i \in 1..n |->
                  Event("elementSetup", ownership[i].type, ownership[i].id, 0)]
           \o (IF k = 0 THEN <<Event("statePropagatorData.setup", "-", 0, 0)>>
               ELSE <<>>)
           \o (IF k = 0 /\ usePmeLB
               THEN <<Event("pmeLoadBalanceHelper.setup", "-", 0, 0)>> ELSE <<>>)]

\* A slip: the new signaller goes to the back of the list.
addSignallerAtBack(list, signaller) == Append(list, signaller)

\* addSignaller in build(): the new signaller goes to the front of the list.
addSignaller(list, signaller) == <<signaller>> \o list

\* The signaller list after the addSignaller calls for the given build order.
RECURSIVE BuildSignallers(_, _)
BuildSignallers(list, order) ==
    IF order = <<>> THEN list
    ELSE BuildSignallers(addSignaller(list, Head(order)), Tail(order))

\* A registration function applied to a connection record: the controller takes
\* the connection whose tag is the one it asked for.
ApplyRegistration(conn, registration, connection) ==
    IF connection.tag = registration.tag THEN conn \cup {registration.controller}
    ELSE conn

\* A slip: each registration function is applied to the first connection only.
WiringCallsFirstOnly(functions, connections) ==
    [i \in 1..(IF connections = <<>> THEN 0 ELSE Len(functions)) |-> <<i, 1>>]

\* The nested loops of build() over the registration functions and the
\* connection records of one kind: the pairs <<function, connection>> (by their
\* positions) for which registration(connection) is called, in call order.
WiringCalls(functions, connections) ==
    Flatten([i \in 1..Len(functions) |->
                [j \in 1..Len(connections) |-> <<i, j>>]])

\* These calls as log entries.
WiringLog(kind, calls) ==
    [k \in 1..Len(calls) |-> Event(kind, "-", calls[k][1], calls[k][2])]

\* The controllers connected once these calls have been made.
RECURSIVE WiringResult(_, _, _, _)
WiringResult(conn, calls, functions, connections) ==
    IF calls = <<>> THEN conn
    ELSE WiringResult(ApplyRegistration(conn, functions[Head(calls)[1]],
                                        connections[Head(calls)[2]]),
                      Tail(calls), functions, connections)

\* A moved-from std::unique_ptr.
NullElement == MkElement("null", "-", -3)


\* The state of a ModularSimulatorAlgorithm after its constructor.
ConstructedSignalHelper == [lastStep_ |-> StepMaxValue, nextNSStep_ |-> StepMinusOne]

ConstructedLastStepSignaller ==
    [nextNSStep_ |-> StepMinusOne, signalledStopCondition_ |-> FALSE]

\* A slip: the trajectory element is put in front of the builder's call list.
ElementCallListTrajectoryEarly(fep, callList) ==
    <<CheckpointHelper>> \o fep \o <<TrajectoryElement>> \o callList

\* The element call list build() hands to the algorithm: the checkpoint helper,
\* the free-energy element if there is one, the call list of the builder, the
\* trajectory element.
ElementCallList(fep, callList) ==
    <<CheckpointHelper>> \o fep \o callList \o <<TrajectoryElement>>

\* The ownership list build() hands to the algorithm: the free-energy element if
\* there is one, the elements stored in the builder, the trajectory element.
ElementsOwnershipList(fep, elements) == fep \o elements \o <<TrajectoryElement>>

\* A slip: the check of algorithmHasBeenBuilt_ is missing.
BuildNeverRefused(hasBeenBuilt) == FALSE

\* if (algorithmHasBeenBuilt_) throw SimulationAlgorithmSetupError(...)
BuildRefused(hasBeenBuilt) == hasBeenBuilt

\* A slip: the builder is marked as built only by a build() that succeeds.
MarkedBuiltOnSuccess(failed) == ~failed

\* algorithmHasBeenBuilt_ = true; at the start of build(), whether or not the
\* rest of the call fails.
MarkedBuilt(failed) == TRUE

\* ModularSimulatorAlgorithmBuilder::build
build ==
    /\ buildCalls < MaxBuildCalls
    /\ buildCalls' = buildCalls + 1
    /\ IF BuildRefused(algorithmHasBeenBuilt_)
       THEN /\ buildResult' = "SetupError: built more than once"
            /\ UNCHANGED <<builderVars, buildLog, connected, algorithmVars>>
       ELSE LET thermoCalls == WiringCalls(thermostatRegistrationFunctions_,
                                           propagatorThermostatConnections_)
                baroCalls == WiringCalls(barostatRegistrationFunctions_,
                                         propagatorBarostatConnections_)
                conn == WiringResult(
                            WiringResult({}, thermoCalls,
                                         thermostatRegistrationFunctions_,
                                         propagatorThermostatConnections_),
                            baroCalls, barostatRegistrationFunctions_,
                            propagatorBarostatConnections_)
                wiringLog == WiringLog("thermostatRegistration", thermoCalls)
                             \o WiringLog("barostatRegistration", baroCalls)
                noCallback == useDomDec /\ ~checkBondedInteractionsCallback_
                signallers == BuildSignallers(<<>>, SignallerBuildOrder)
                fep == IF inputrec.efep THEN <<FreeEnergyElement>> ELSE <<>>
                ownership == ElementsOwnershipList(fep, elements_)
                callList == ElementCallList(fep, callList_)
                setupRun == setup(signallers, ownership, conn)
            IN /\ algorithmHasBeenBuilt_' = MarkedBuilt(noCallback \/ setupRun.throws)
               /\ connected' = conn
               /\ UNCHANGED <<callList_, thermostatRegistrationFunctions_,
                              barostatRegistrationFunctions_,
                              propagatorThermostatConnections_,
                              propagatorBarostatConnections_,
                              checkBondedInteractionsCallback_>>
               /\ IF noCallback
                  THEN /\ buildResult' = "SetupError: callback not set"
                       /\ buildLog' = wiringLog
                       /\ UNCHANGED <<elements_, algorithmVars>>
                  ELSE /\ elements_' = [i \in 1..Len(elements_) |-> NullElement]
                       /\ buildLog' = wiringLog \o setupRun.log
                       /\ IF setupRun.throws
                          THEN /\ buildResult' = "MissingElementConnectionError"
                               /\ UNCHANGED algorithmVars
                          ELSE /\ buildResult' = "ok"
                               /\ instance' = TRUE
                               /\ step_' = inputrec.init_step
                               /\ signallerList_' = signallers
                               /\ elementCallList_' = callList
                               /\ elementsOwnershipList_' = ownership
                               /\ UNCHANGED <<runFinished_, taskQueue_, taskIterator_,
                                              iteratorInvalidated, signalHelper_,
                                              lastStepSignaller,
                                              stophandlerCurrentStep_,
                                              stophandlerIsNSStep_, handlerCalls>>
    /\ UNCHANGED <<confVars, stopCondition, driverVars, twin, storedLog, setupTeardownVars>>


\* ------------------------------------------------------------- the driver
\* Number of tasks of a kind in a queue.
NrOfKind(queue, kind) == Cardinality({i \in 1..Len(queue) : queue[i].kind = kind})

IsTeardown(task) == task.kind = "teardown"

Last(s) == s[Len(s)]

\* The task taskIterator_ points at.
CurrentTask == taskQueue_[taskIterator_ + 1]

\* ModularSimulatorAlgorithm::getNextTask (with updateTaskQueue).  Incrementing
\* an iterator that is at or past end(), and comparing an iterator that a clear()
\* has invalidated, are undefined: a build with checked iterators aborts, a
\* build with plain pointers as iterators goes on with the pointer values.
\* The driver runs every task it is handed before it asks for the next one;
\* what it does with a dangling pointer is left open.
getNextTask ==
    /\ instance /\ alive
    /\ pending => lastReturn = "dangling"
    /\ terminalSeen => extraCalls < MaxExtraCalls
    /\ LET nonEmpty == taskQueue_ /= <<>>
           badIncrement == nonEmpty /\ taskIterator_ >= Len(taskQueue_)
           iter == IF nonEmpty THEN taskIterator_ + 1 ELSE taskIterator_
           atEnd == (iter = Len(taskQueue_))
           new == populateTaskQueue(step_, [sh |-> signalHelper_,
                                            lss |-> lastStepSignaller,
                                            log |-> <<>>],
                                    signallerList_, elementCallList_)
       IN /\ extraCalls' = IF terminalSeen THEN extraCalls + 1 ELSE extraCalls
          /\ rewind' = [rewind EXCEPT !.pending = FALSE]
          /\ IF checkedIterators /\ (badIncrement \/ iteratorInvalidated)
             THEN /\ lastReturn' = "abort"
                  /\ alive' = FALSE
                  /\ pending' = FALSE
                  /\ UNCHANGED <<algorithmVars, terminalSeen, teardownReturned,
                                 signalLog, populateLog, batchLog>>
             ELSE /\ alive' = alive
                  /\ IF atEnd /\ runFinished_
                     THEN /\ lastReturn' = "terminal"
                          /\ pending' = FALSE
                          /\ terminalSeen' = TRUE
                          /\ taskIterator_' = iter
                          /\ UNCHANGED <<instance, step_, runFinished_, taskQueue_,
                                         iteratorInvalidated, signalHelper_,
                                         lastStepSignaller, signallerList_,
                                         elementCallList_, elementsOwnershipList_,
                                         stophandlerCurrentStep_,
                                         stophandlerIsNSStep_, handlerCalls>>
                          /\ UNCHANGED <<teardownReturned, signalLog, populateLog,
                                         batchLog>>
                     ELSE IF atEnd
                     THEN /\ taskQueue_' = new.taskQueue_
                          /\ step_' = new.step_
                          /\ runFinished_' = new.runFinished_
                          /\ signalHelper_' = new.sig.sh
                          /\ lastStepSignaller' = new.sig.lss
                          /\ taskIterator_' = 0
                          /\ iteratorInvalidated' = FALSE
                          /\ lastReturn' = "task"
                          /\ pending' = TRUE
                          /\ signalLog' = SignalNames(new.log)
                          /\ populateLog' = new.log
                          /\ batchLog' = Append(batchLog,
                                 [first |-> step_,
                                  nSteps |-> NrOfKind(new.taskQueue_, "preStep"),
                                  teardown |-> IsTeardown(Last(new.taskQueue_)),
                                  afterRewind |-> rewind.pending,
                                  rewindStep |-> rewind.step,
                                  rounds |-> new.rounds,
                                  helperRuns |-> new.helperRuns,
                                  tasks |-> new.taskQueue_,
                                  stop |-> stopCondition,
                                  answersBefore |-> handlerCalls.stopAnswers])
                          /\ UNCHANGED <<instance, signallerList_, elementCallList_,
                                         elementsOwnershipList_,
                                         stophandlerCurrentStep_,
                                         stophandlerIsNSStep_, handlerCalls>>
                          /\ UNCHANGED <<terminalSeen, teardownReturned>>
                     ELSE /\ taskIterator_' = iter
                          /\ lastReturn' = IF iter < Len(taskQueue_) THEN "task"
                                           ELSE "dangling"
                          /\ pending' = TRUE
                          /\ teardownReturned' =
                                (teardownReturned
                                 \/ (iter < Len(taskQueue_)
                                     /\ taskQueue_[iter + 1].kind = "teardown"))
                          /\ UNCHANGED <<instance, step_, runFinished_, taskQueue_,
                                         iteratorInvalidated, signalHelper_,
                                         lastStepSignaller, signallerList_,
                                         elementCallList_, elementsOwnershipList_,
                                         stophandlerCurrentStep_,
                                         stophandlerIsNSStep_, handlerCalls>>
                          /\ UNCHANGED <<terminalSeen, signalLog, populateLog,
                                         batchLog>>
    /\ UNCHANGED <<confVars, stopCondition, builderVars, buildObsVars,
                   postStepLog, teardownLog, twin, storedLog, setupTeardownVars>>


\* A slip: the batch is discarded whenever the stop handler wants to stop.
PreStepRewindsOnAnyStop(step, isNeighborSearchingStep) ==
    stoppingAfterCurrentStep(isNeighborSearchingStep)

\* ModularSimulatorAlgorithm::preStep: TRUE when the batch is discarded.
PreStepRewinds(step, isNeighborSearchingStep) ==
    stoppingAfterCurrentStep(isNeighborSearchingStep) /\ step /= signalHelper_.lastStep_

\* A slip: the pre-step task that discards the batch records its step as the
\* last step itself.
preStepForcingLastStep(step, time, isNeighborSearchingStep) ==
    IF PreStepRewinds(step, isNeighborSearchingStep)
    THEN /\ taskQueue_' = <<>>
         /\ iteratorInvalidated' = TRUE
         /\ step_' = step
         /\ signalHelper_' = [signalHelper_ EXCEPT !.lastStep_ = step]
         /\ rewind' = [pending |-> TRUE, happened |-> TRUE, step |-> step]
         /\ handlerCalls' = [handlerCalls EXCEPT !.stopQueries = Append(@, step),
                                                 !.stopAnswers = Append(@, TRUE)]
         /\ UNCHANGED <<instance, runFinished_, taskIterator_,
                        lastStepSignaller, signallerList_, elementCallList_,
                        elementsOwnershipList_, stophandlerCurrentStep_,
                        stophandlerIsNSStep_>>
         /\ UNCHANGED <<postStepLog, teardownLog>>
    ELSE /\ handlerCalls' = [handlerCalls EXCEPT !.stopQueries = Append(@, step),
                                                 !.stopAnswers =
                                                     Append(@, stoppingAfterCurrentStep(
                                                                   isNeighborSearchingStep)),
                                                 !.resetSignal = @ + 1,
                                                 !.stopSignal = @ + 1,
                                                 !.stopSignalSaw =
                                                     [step |-> step,
                                                      isNSStep |->
                                                          isNeighborSearchingStep]]
         /\ stophandlerIsNSStep_' = isNeighborSearchingStep
         /\ stophandlerCurrentStep_' = step
         /\ UNCHANGED <<instance, step_, runFinished_, taskQueue_, taskIterator_,
                        iteratorInvalidated, signalHelper_, lastStepSignaller,
                        signallerList_, elementCallList_, elementsOwnershipList_>>
         /\ UNCHANGED <<rewind, postStepLog, teardownLog>>

\* ModularSimulatorAlgorithm::preStep
preStep(step, time, isNeighborSearchingStep) ==
    IF PreStepRewinds(step, isNeighborSearchingStep)
    THEN /\ taskQueue_' = <<>>
         /\ iteratorInvalidated' = TRUE
         /\ step_' = step
         /\ rewind' = [pending |-> TRUE, happened |-> TRUE, step |-> step]
         /\ handlerCalls' = [handlerCalls EXCEPT !.stopQueries = Append(@, step),
                                                 !.stopAnswers = Append(@, TRUE)]
         /\ UNCHANGED <<instance, runFinished_, taskIterator_, signalHelper_,
                        lastStepSignaller, signallerList_, elementCallList_,
                        elementsOwnershipList_, stophandlerCurrentStep_,
                        stophandlerIsNSStep_>>
         /\ UNCHANGED <<postStepLog, teardownLog>>
    ELSE /\ handlerCalls' = [handlerCalls EXCEPT !.stopQueries = Append(@, step),
                                                 !.stopAnswers =
                                                     Append(@, stoppingAfterCurrentStep(
                                                                   isNeighborSearchingStep)),
                                                 !.resetSignal = @ + 1,
                                                 !.stopSignal = @ + 1,
                                                 !.stopSignalSaw =
                                                     [step |-> step,
                                                      isNSStep |->
                                                          isNeighborSearchingStep]]
         /\ stophandlerIsNSStep_' = isNeighborSearchingStep
         /\ stophandlerCurrentStep_' = step
         /\ UNCHANGED <<instance, step_, runFinished_, taskQueue_, taskIterator_,
                        iteratorInvalidated, signalHelper_, lastStepSignaller,
                        signallerList_, elementCallList_, elementsOwnershipList_>>
         /\ UNCHANGED <<rewind, postStepLog, teardownLog>>

\* A slip: the post-step task sets the step counter back to its own step.
postStepSettingStep(step, time) ==
    /\ postStepLog' = Append(postStepLog,
                             [step |-> step,
                              stepsDone |-> StepMinus(step, inputrec.init_step)])
    /\ step_' = step
    /\ UNCHANGED <<instance, runFinished_, taskQueue_, taskIterator_,
                   iteratorInvalidated, signalHelper_, lastStepSignaller,
                   signallerList_, elementCallList_, elementsOwnershipList_,
                   stophandlerCurrentStep_, stophandlerIsNSStep_, handlerCalls>>
    /\ UNCHANGED <<rewind, teardownLog>>

\* ModularSimulatorAlgorithm::postStep
postStep(step, time) ==
    /\ postStepLog' = Append(postStepLog,
                             [step |-> step,
                              stepsDone |-> StepMinus(step, inputrec.init_step)])
    /\ UNCHANGED <<algorithmVars, rewind, teardownLog>>

\* ModularSimulatorAlgorithm::teardown (with simulatorTeardown)
teardown ==
    LET done == StepMinus(step_, inputrec.init_step) IN
    /\ teardownLog' = teardownLog
          \o [i \in 1..Len(elementsOwnershipList_) |->
                 Event("elementTeardown", elementsOwnershipList_[i].type,
                       elementsOwnershipList_[i].id, 0)]
          \o <<Event("energyData.teardown", "-", 0, 0)>>
          \o (IF usePmeLB THEN <<Event("pmeLoadBalanceHelper.teardown", "-", 0, 0)>>
              ELSE <<>>)
          \o <<Event("set_nsteps_done", "-", done.hi, done.lo)>>
    /\ UNCHANGED <<algorithmVars, rewind, postStepLog>>

\* The driver runs the task it was handed: (*task)().  Running through a
\* dangling pointer is undefined; nothing is said about what follows.
runTask ==
    /\ instance /\ alive /\ pending
    /\ pending' = FALSE
    /\ IF lastReturn = "dangling"
       THEN /\ alive' = FALSE
            /\ UNCHANGED <<algorithmVars, rewind, postStepLog, teardownLog>>
       ELSE /\ alive' = alive
            /\ CASE CurrentTask.kind = "preStep" ->
                      preStep(CurrentTask.step, CurrentTask.time, CurrentTask.isNSStep)
                 [] CurrentTask.kind = "postStep" ->
                      postStep(CurrentTask.step, CurrentTask.time)
                 [] CurrentTask.kind = "teardown" -> teardown
                 [] OTHER -> UNCHANGED <<algorithmVars, rewind, postStepLog,
                                         teardownLog>>
    /\ UNCHANGED <<lastReturn, terminalSeen, teardownReturned, extraCalls,
                   signalLog, populateLog, batchLog>>
    /\ UNCHANGED <<confVars, stopCondition, builderVars, buildObsVars, twin, storedLog, setupTeardownVars>>

\* The stop handler learns of a stop request: at the next neighbour-search step
\* (first signal) or at the next step (second signal).
StopSignal ==
    /\ instance /\ alive /\ ~terminalSeen
    /\ \E c \in {"nextNS", "next"} :
          /\ stopCondition /= c
          /\ stopCondition /= "next"
          /\ stopCondition' = c
    /\ UNCHANGED <<confVars, builderVars, buildObsVars, algorithmVars, driverVars,
                   twin, storedLog, setupTeardownVars>>

\* ------------------------------------------------------------ specification
\* Initial steps of a run: 0, and a step beyond the range of a 32-bit int.
InitSteps == {MkStep(0, 0), MkStep(1, 3)}

\* Set-ups of a run: domain decomposition, PME load balancing, free energy
\* perturbation, time step.
Machines ==
    {[dd |-> FALSE, pme |-> FALSE, fep |-> FALSE, dt |-> 1],
     [dd |-> TRUE, pme |-> TRUE, fep |-> TRUE, dt |-> 2]}

InitConf ==
    /\ \E is \in InitSteps, ns \in 0..MaxNSteps, nl \in 1..MaxNstlist, m \in Machines :
          /\ inputrec = [init_step |-> is, nsteps |-> ns, nstlist |-> nl,
                         init_t |-> 0, delta_t |-> m.dt, efep |-> m.fep]
          /\ useDomDec = m.dd
          /\ usePmeLB = m.pme
    /\ checkedIterators \in BOOLEAN
    /\ stopCondition = "none"

InitAlgorithm ==
    /\ instance = FALSE
    /\ step_ = StepMinusOne
    /\ runFinished_ = FALSE
    /\ taskQueue_ = <<>>
    /\ taskIterator_ = 0
    /\ iteratorInvalidated = FALSE
    /\ signalHelper_ = ConstructedSignalHelper
    /\ lastStepSignaller = ConstructedLastStepSignaller
    /\ signallerList_ = <<>>
    /\ elementCallList_ = <<>>
    /\ elementsOwnershipList_ = <<>>
    /\ stophandlerCurrentStep_ = StepMinusOne
    /\ stophandlerIsNSStep_ = FALSE
    /\ handlerCalls = [stopQueries |-> <<>>, stopAnswers |-> <<>>, resetSignal |-> 0,
                       stopSignal |-> 0,
                       stopSignalSaw |-> [step |-> StepMinusOne, isNSStep |-> FALSE]]

InitObservers ==
    /\ buildCalls = 0
    /\ buildResult = "none"
    /\ buildLog = <<>>
    /\ connected = {}
    /\ lastReturn = "none"
    /\ pending = FALSE
    /\ alive = TRUE
    /\ terminalSeen = FALSE
    /\ teardownReturned = FALSE
    /\ extraCalls = 0
    /\ signalLog = <<>>
    /\ populateLog = <<>>
    /\ batchLog = <<>>
    /\ rewind = [pending |-> FALSE, happened |-> FALSE, step |-> StepMinusOne]
    /\ postStepLog = <<>>
    /\ teardownLog = <<>>

\* A builder to which a propagator and the thermostat controlling it were added.
StandardPropagator == MkElement("propagator", "t1", 1)
StandardThermostat == MkElement("thermostat", "t1", 2)

InitStandardBuilder ==
    /\ algorithmHasBeenBuilt_ = FALSE
    /\ elements_ = <<StandardPropagator, StandardThermostat>>
    /\ callList_ = <<StandardPropagator, StandardThermostat>>
    /\ thermostatRegistrationFunctions_ =
           <<[controller |-> StandardThermostat, tag |-> "t1"]>>
    /\ barostatRegistrationFunctions_ = <<>>
    /\ propagatorThermostatConnections_ =
           <<[tag |-> "t1", propagator |-> StandardPropagator]>>
    /\ propagatorBarostatConnections_ = <<>>
    /\ checkBondedInteractionsCallback_ = TRUE
    /\ setupAndTeardownList_ = <<>>
    /\ storedLog = <<StandardPropagator, StandardThermostat>>
    /\ setupTeardownCalls = <<>>

\* No instance was built and run before.
NoTwin == [run |-> 1, batchLog |-> <<>>, stopAnswers |-> <<>>]

Init == InitConf /\ InitStandardBuilder /\ InitAlgorithm /\ InitObservers /\ twin = NoTwin

Next == build \/ getNextTask \/ runTask \/ StopSignal

Spec == Init /\ [][Next]_vars


\* The builder as constructed, before any element was added, for a short run.
InitEmptyBuilder ==
    /\ algorithmHasBeenBuilt_ = FALSE
    /\ elements_ = <<>>
    /\ callList_ = <<>>
    /\ thermostatRegistrationFunctions_ = <<>>
    /\ barostatRegistrationFunctions_ = <<>>
    /\ propagatorThermostatConnections_ = <<>>
    /\ propagatorBarostatConnections_ = <<>>
    /\ checkBondedInteractionsCallback_ = FALSE
    /\ setupAndTeardownList_ = <<>>
    /\ storedLog = <<>>
    /\ setupTeardownCalls = <<>>

InitShortRun ==
    /\ inputrec = [init_step |-> MkStep(0, 0), nsteps |-> 0, nstlist |-> 1,
                   init_t |-> 0, delta_t |-> 2, efep |-> FALSE]
    /\ useDomDec = TRUE
    /\ usePmeLB = FALSE
    /\ checkedIterators = FALSE
    /\ stopCondition = "none"

InitBuilder ==
    InitShortRun /\ InitEmptyBuilder /\ InitAlgorithm /\ InitObservers /\ twin = NoTwin

\* The tag of the propagator the controllers of the run ask for.
ControllerTags == {"t1"}

AddElement ==
    \/ \E tag \in Tags, toThermostat, toBarostat \in BOOLEAN :
          AddPropagator(tag, toThermostat, toBarostat)
    \/ \E tag \in ControllerTags : AddThermostat(tag)
    \/ \E tag \in ControllerTags : AddBarostat(tag)

NextBuilder ==
    \/ AddElement
    \/ setCheckBondedInteractionsCallback
    \/ build
    \/ getNextTask
    \/ runTask

SpecBuilder == InitBuilder /\ [][NextBuilder]_vars


\* Two instances with the same configuration, built and run one after the other.
InitTwinConf ==
    /\ \E ns \in 0..MaxTwinSteps, nl \in 1..MaxNstlist :
          inputrec = [init_step |-> MkStep(0, 0), nsteps |-> ns, nstlist |-> nl,
                      init_t |-> 0, delta_t |-> 1, efep |-> FALSE]
    /\ useDomDec = FALSE
    /\ usePmeLB = FALSE
    /\ checkedIterators = FALSE
    /\ stopCondition = "none"

InitTwin ==
    InitTwinConf /\ InitStandardBuilder /\ InitAlgorithm /\ InitObservers /\ twin = NoTwin

\* The run of the first instance is over; a second builder is constructed
\* (ModularSimulatorAlgorithmBuilder's constructor) with the same configuration
\* and given the same elements.  What the first instance generated is kept.
SecondInstance ==
    /\ twin.run = 1
    /\ instance
    /\ terminalSeen \/ ~alive
    /\ twin' = [run |-> 2, batchLog |-> batchLog, stopAnswers |-> handlerCalls.stopAnswers]
    /\ stopCondition' = "none"
    /\ algorithmHasBeenBuilt_' = FALSE
    /\ elements_' = <<StandardPropagator, StandardThermostat>>
    /\ callList_' = <<StandardPropagator, StandardThermostat>>
    /\ setupAndTeardownList_' = <<>>
    /\ storedLog' = <<StandardPropagator, StandardThermostat>>
    /\ setupTeardownCalls' = <<>>
    /\ UNCHANGED <<thermostatRegistrationFunctions_, barostatRegistrationFunctions_,
                   propagatorThermostatConnections_, propagatorBarostatConnections_,
                   checkBondedInteractionsCallback_>>
    /\ buildCalls' = 0
    /\ buildResult' = "none"
    /\ buildLog' = <<>>
    /\ connected' = {}
    /\ instance' = FALSE
    /\ step_' = StepMinusOne
    /\ runFinished_' = FALSE
    /\ taskQueue_' = <<>>
    /\ taskIterator_' = 0
    /\ iteratorInvalidated' = FALSE
    /\ signalHelper_' = ConstructedSignalHelper
    /\ lastStepSignaller' = ConstructedLastStepSignaller
    /\ signallerList_' = <<>>
    /\ elementCallList_' = <<>>
    /\ elementsOwnershipList_' = <<>>
    /\ stophandlerCurrentStep_' = StepMinusOne
    /\ stophandlerIsNSStep_' = FALSE
    /\ handlerCalls' = [stopQueries |-> <<>>, stopAnswers |-> <<>>, resetSignal |-> 0,
                        stopSignal |-> 0,
                        stopSignalSaw |-> [step |-> StepMinusOne, isNSStep |-> FALSE]]
    /\ lastReturn' = "none"
    /\ pending' = FALSE
    /\ alive' = TRUE
    /\ terminalSeen' = FALSE
    /\ teardownReturned' = FALSE
    /\ extraCalls' = 0
    /\ signalLog' = <<>>
    /\ populateLog' = <<>>
    /\ batchLog' = <<>>
    /\ rewind' = [pending |-> FALSE, happened |-> FALSE, step |-> StepMinusOne]
    /\ postStepLog' = <<>>
    /\ teardownLog' = <<>>
    /\ UNCHANGED confVars

NextTwin == build \/ getNextTask \/ runTask \/ StopSignal \/ SecondInstance

SpecTwin == InitTwin /\ [][NextTwin]_vars


\* The elements of the data objects the builder holds; the free-energy one
\* exists when free-energy perturbation is active.
StatePropagatorDataElement == MkElement("statePropagatorData", "-", -4)
EnergyDataElement == MkElement("energyData", "-", -5)
FreeEnergyDataElement == MkElement("freeEnergyPerturbationData", "-", -6)

\* A slip: an element is recognised by its type and tag.
elementExistsByTag(element) ==
    \/ \E i \in 1..Len(elements_) :
          element.type = elements_[i].type /\ element.tag = elements_[i].tag
    \/ element.id = StatePropagatorDataElement.id
    \/ element.id = EnergyDataElement.id
    \/ (inputrec.efep /\ element.id = FreeEnergyDataElement.id)

\* ModularSimulatorAlgorithmBuilder::elementExists: pointers are compared.
elementExists(element) ==
    \/ \E i \in 1..Len(elements_) : element.id = elements_[i].id
    \/ element.id = StatePropagatorDataElement.id
    \/ element.id = EnergyDataElement.id
    \/ (inputrec.efep /\ element.id = FreeEnergyDataElement.id)

\* ModularSimulatorAlgorithmBuilder::addElementToSetupTeardownList
addElementToSetupTeardownList(list, element) ==
    IF \E i \in 1..Len(list) : list[i].id = element.id THEN list
    ELSE Append(list, element)

\* The elements the builder holds and an element of its data objects: what a
\* caller can pass.
ElementsHeld ==
    {elements_[i] : i \in {k \in 1..Len(elements_) : elements_[k] /= NullElement}}
    \cup {StatePropagatorDataElement}

\* A call of addElementToSetupTeardownList with an element the builder holds.
AddToSetupTeardownList ==
    /\ Len(setupTeardownCalls) < MaxSetupTeardownCalls
    /\ \E element \in ElementsHeld :
          /\ setupAndTeardownList_' =
                 addElementToSetupTeardownList(setupAndTeardownList_, element)
          /\ setupTeardownCalls' = Append(setupTeardownCalls, element)
    /\ UNCHANGED <<confVars, stopCondition, builderVars, buildObsVars, algorithmVars,
                   driverVars, twin, storedLog>>

\* The assembly of an algorithm: a builder as constructed, for a run of one
\* step, to which propagators and thermostats are added.
InitAssemblyConf ==
    /\ \E m \in Machines :
          /\ inputrec = [init_step |-> MkStep(0, 0), nsteps |-> 0, nstlist |-> 1,
                         init_t |-> 0, delta_t |-> m.dt, efep |-> m.fep]
          /\ useDomDec = m.dd
          /\ usePmeLB = m.pme
    /\ checkedIterators = FALSE
    /\ stopCondition = "none"

InitAssembly ==
    InitAssemblyConf /\ InitEmptyBuilder /\ InitAlgorithm /\ InitObservers
    /\ twin = NoTwin

AddStage ==
    \/ \E tag \in ControllerTags : AddPropagator(tag, TRUE, FALSE)
    \/ \E tag \in ControllerTags : AddThermostat(tag)

NextAssembly ==
    \/ AddStage
    \/ setCheckBondedInteractionsCallback
    \/ AddToSetupTeardownList
    \/ build

SpecAssembly == InitAssembly /\ [][NextAssembly]_vars


\* A run under a driver that keeps calling getNextTask and running the task it
\* is handed (the loop of ModularSimulator::run) for as long as it can.
InitLiveConf ==
    /\ \E ns \in 0..MaxNSteps, nl \in 1..MaxNstlist :
          inputrec = [init_step |-> MkStep(0, 0), nsteps |-> ns, nstlist |-> nl,
                      init_t |-> 0, delta_t |-> 1, efep |-> FALSE]
    /\ useDomDec = FALSE
    /\ usePmeLB = FALSE
    /\ checkedIterators \in BOOLEAN
    /\ stopCondition = "none"

InitLive ==
    InitLiveConf /\ InitStandardBuilder /\ InitAlgorithm /\ InitObservers
    /\ twin = NoTwin

\* A call of getNextTask by the driver changes the state: the guard of
\* getNextTask, less the calls that hand out the same stale pointer again.
DriverCanPull ==
    /\ instance /\ alive
    /\ pending => (lastReturn = "dangling" /\ terminalSeen)
    /\ terminalSeen => extraCalls < MaxExtraCalls

\* The driver runs every task it is handed and calls getNextTask again as long
\* as it can: weak fairness of runTask and of getNextTask, the latter written
\* with DriverCanPull for ENABLED <<getNextTask>>_vars.
SpecLive ==
    /\ InitLive /\ [][Next]_vars
    /\ WF_vars(runTask)
    /\ ([]<>(~DriverCanPull) \/ []<><<getNextTask>>_vars)


\* ------------------------------------------------------------------ claims
\* The step n after s, for the steps of one run (which stay within a block of
\* 2^31 steps).
Plus(s, n) == [hi |-> s.hi, lo |-> s.lo + n]

\* A run whose steps fit in a 32-bit int, built with plain pointers as iterators.
PlainRun == inputrec.init_step.hi = 0 /\ ~checkedIterators

\* C1: sticky termination.  Once getNextTask has returned the terminal value
\* (nullptr), every later call returns the terminal value as well: no later call
\* returns a task, and none moves the cursor to a position outside the batch.
C1_StickyTermination ==
    (PlainRun /\ terminalSeen) =>
        (lastReturn = "terminal" /\ taskIterator_ <= Len(taskQueue_))

\* C2: getNextTask returns the terminal value only after it has returned the
\* teardown task (the final task of the final batch), also in runs in which a
\* pre-step task discarded a batch.
C2_TerminalOnlyAfterTeardown ==
    (PlainRun /\ lastReturn = "terminal") => teardownReturned


\* The latest batch generated.
CurrentBatch == Last(batchLog)

\* Position, among the steps of a batch, of the step that the task at index i of
\* the queue belongs to: the number of pre-step tasks up to i.
StepIndex(queue, i) ==
    Cardinality({j \in 1..i : queue[j].kind = "preStep"})

\* Position of an element in the element call list.
CallPosition(element) ==
    CHOOSE k \in 1..Len(elementCallList_) : elementCallList_[k] = element

\* The queue is a sequence of groups (pre-step task, element tasks, post-step
\* task), followed by at most one teardown task.
GroupedBySteps(queue) ==
    /\ queue[1].kind = "preStep"
    /\ \A i \in 1..Len(queue) :
          CASE queue[i].kind = "preStep" ->
                  /\ i < Len(queue) /\ queue[i + 1].kind \in {"element", "postStep"}
                  /\ i > 1 => queue[i - 1].kind = "postStep"
            [] queue[i].kind = "element" ->
                  i < Len(queue) /\ queue[i + 1].kind \in {"element", "postStep"}
            [] queue[i].kind = "postStep" ->
                  i = Len(queue) \/ queue[i + 1].kind \in {"preStep", "teardown"}
            [] queue[i].kind = "teardown" -> i = Len(queue)
            [] OTHER -> FALSE

\* The groups are those of the steps first, first + 1, ... in this order, and
\* within a group the element tasks come in call-list order.
StepsInOrder(queue, first) ==
    \A i \in 1..Len(queue) :
        LET real == Plus(first, StepIndex(queue, i) - 1) IN
        CASE queue[i].kind = "preStep" ->
                /\ first.hi = 0 => queue[i].step = real
                /\ i > 1 => \E j \in 1..(i - 1) :
                               /\ queue[j].kind = "preStep"
                               /\ StepIndex(queue, j) = StepIndex(queue, i) - 1
                               /\ queue[i].step = Plus(queue[j].step, 1)
          [] queue[i].kind = "postStep" ->
                \E j \in 1..(i - 1) :
                    /\ queue[j].kind = "preStep"
                    /\ StepIndex(queue, j) = StepIndex(queue, i)
                    /\ queue[i].step = queue[j].step
          [] queue[i].kind = "element" ->
                /\ queue[i].step = real
                /\ queue[i].element \in Range(elementCallList_)
                /\ queue[i - 1].kind = "element" =>
                      \/ CallPosition(queue[i - 1].element)
                            < CallPosition(queue[i].element)
                      \/ /\ queue[i - 1].element = queue[i].element
                         /\ queue[i].nr = queue[i - 1].nr + 1
                /\ queue[i - 1].kind = "preStep" \/ queue[i - 1].element /= queue[i].element
                      => queue[i].nr = 1
          [] OTHER -> TRUE

\* C3: every batch has, for each step of its range in increasing order, one
\* pre-step task, then the tasks of the elements for that step in call-list
\* order, then one post-step task; the step counter ends one past the range; a
\* teardown task is the last entry of the batch that contains the final step,
\* and is in no other batch.
C3_BatchShape ==
    taskQueue_ /= <<>> =>
        /\ GroupedBySteps(taskQueue_)
        /\ StepsInOrder(taskQueue_, CurrentBatch.first)
        /\ step_ = Plus(CurrentBatch.first, NrOfKind(taskQueue_, "preStep"))
        /\ NrOfKind(taskQueue_, "postStep") = NrOfKind(taskQueue_, "preStep")
        /\ IsTeardown(Last(taskQueue_)) <=>
              /\ StepLeq(CurrentBatch.first, signalHelper_.lastStep_)
              /\ StepLess(signalHelper_.lastStep_, step_)

\* A batch of at least two steps, with tasks of several elements, that ends with
\* the teardown task.
C3_Witness ==
    /\ taskQueue_ /= <<>>
    /\ NrOfKind(taskQueue_, "preStep") >= 2
    /\ IsTeardown(Last(taskQueue_))
    /\ \E i \in 2..Len(taskQueue_) :
          /\ taskQueue_[i].kind = "element" /\ taskQueue_[i - 1].kind = "element"
          /\ taskQueue_[i].element /= taskQueue_[i - 1].element


\* The step ranges <<first, last>> of the batches generated so far.
BatchRanges ==
    [i \in 1..Len(batchLog) |->
        <<batchLog[i].first.lo, batchLog[i].first.lo + batchLog[i].nSteps - 1>>]

\* The run of the scenario: initial step 0, final step 5, re-partition steps
\* 0, 2, 4, and no stop request.
Scenario ==
    /\ inputrec.init_step = MkStep(0, 0)
    /\ inputrec.nsteps = 5
    /\ inputrec.nstlist = 2
    /\ stopCondition = "none"

\* A step at which the neighbour-search signaller signals.
IsRepartitionStep(step) ==
    do_per_step(step, inputrec.nstlist) \/ step = inputrec.init_step

\* C4 as claimed: in the scenario the successive batches cover the step ranges
\* [0], [1,2], [3,4], [5], and the last batch ends with the teardown task.
C4_BatchesIncludeBoundary ==
    (Scenario /\ terminalSeen) =>
        /\ BatchRanges = <<(<<0, 0>>), (<<1, 2>>), (<<3, 4>>), (<<5, 5>>)>>
        /\ CurrentBatch.teardown

\* C4 as amended: a batch covers the contiguous steps from the current step up
\* to, but not including, the next re-partition step, or up to and including the
\* final step; in the scenario the successive batches cover the step ranges
\* [0,1], [2,3], [4,5], and only the last one ends with the teardown task.
C4_BatchesEndBeforeBoundary ==
    /\ \A i \in 1..Len(batchLog) :
          /\ \A k \in 1..(batchLog[i].nSteps - 1) :
                ~IsRepartitionStep(Plus(batchLog[i].first, k))
          /\ batchLog[i].teardown
             \/ IsRepartitionStep(Plus(batchLog[i].first, batchLog[i].nSteps))
    /\ Scenario =>
          /\ IsPrefix(BatchRanges, <<(<<0, 1>>), (<<2, 3>>), (<<4, 5>>)>>)
          /\ \A i \in 1..Len(batchLog) : batchLog[i].teardown <=> (i = 3)
          /\ terminalSeen => Len(batchLog) = 3

\* The scenario has run to its end.
C4_Witness == Scenario /\ terminalSeen /\ Len(batchLog) = 3 /\ teardownLog /= <<>>

\* C5: when a pre-step task for step s has discarded the batch, the next call of
\* getNextTask generates a batch that starts at step s and returns its pre-step
\* task; if the last-step signaller then marks s as the last step, that batch
\* covers exactly [s] and ends with the teardown task.
C5_RegenerationAfterRewind ==
    [][(PlainRun /\ rewind.pending /\ ~rewind'.pending) =>
          /\ lastReturn' = "task"
          /\ taskIterator_' = 0
          /\ Len(batchLog') = Len(batchLog) + 1
          /\ Last(batchLog').first = rewind.step
          /\ taskQueue_'[1].kind = "preStep"
          /\ taskQueue_'[1].step = rewind.step
          /\ signalHelper_'.lastStep_ = rewind.step =>
                (Last(batchLog').nSteps = 1 /\ Last(batchLog').teardown)]_vars

\* C6 as claimed: the step counter at the start of a batch generation is one more
\* than at the start of the previous one, except right after a rewind, where it
\* is the step at which the stop was detected.
C6_StepAdvancesByOne ==
    \A i \in 2..Len(batchLog) :
        batchLog[i].first =
            IF batchLog[i].afterRewind THEN batchLog[i].rewindStep
            ELSE Plus(batchLog[i - 1].first, 1)

\* C6 as amended: the step counter at the start of a batch generation is the
\* step counter at the start of the previous one plus the number of steps the
\* previous batch covers (at least one), except right after a rewind, where it is
\* the step carried by the pre-step task that discarded the batch.
C6_StepAdvancesByBatch ==
    \A i \in 1..Len(batchLog) :
        /\ batchLog[i].nSteps >= 1
        /\ i > 1 =>
              batchLog[i].first =
                  IF batchLog[i].afterRewind THEN batchLog[i].rewindStep
                  ELSE Plus(batchLog[i - 1].first, batchLog[i - 1].nSteps)

\* A batch of two steps or more was followed by a batch, and a batch was
\* generated after a rewind.
C6_Witness ==
    /\ \E i \in 2..Len(batchLog) :
          ~batchLog[i].afterRewind /\ batchLog[i - 1].nSteps >= 2
    /\ \E i \in 2..Len(batchLog) : batchLog[i].afterRewind


\* C7: every call of build() after the first one fails with the setup error
\* 'more than once' before any wiring, and leaves the builder and the instance
\* returned by the first build unchanged.
C7_SecondBuildFails ==
    [][(buildCalls >= 1 /\ buildCalls' = buildCalls + 1) =>
          /\ buildResult' = "SetupError: built more than once"
          /\ UNCHANGED <<algorithmVars, builderVars, buildLog, connected>>]_vars

\* build() was called a second time on a builder whose instance has started
\* to run.
C7_Witness ==
    /\ buildCalls = 2
    /\ buildResult = "SetupError: built more than once"
    /\ instance
    /\ batchLog /= <<>>

\* The call order the signaller build order is meant to give.
ExpectedCallOrder == <<"neighborSearch", "lastStep", "logging", "trajectory", "energy">>

IsSignallerSetup(event) == event.call = "signaller.setup"

\* C8: the signallers are called in the reverse of the order in which they were
\* built, in setup and in every notification round: neighbour search, last step,
\* logging, trajectory, energy.
C8_SignallerCallOrder ==
    instance =>
        /\ signallerList_ = ExpectedCallOrder
        /\ signallerList_ = Reverse(SignallerBuildOrder)
        /\ LET setups == SelectSeq(buildLog, IsSignallerSetup)
           IN /\ Len(setups) = Len(ExpectedCallOrder)
              /\ \A i \in 1..Len(setups) : setups[i].name = ExpectedCallOrder[i]
        /\ batchLog /= <<>> =>
              /\ Len(signalLog) = Len(ExpectedCallOrder) * CurrentBatch.rounds
              /\ \A i \in 1..Len(signalLog) :
                    signalLog[i] = ExpectedCallOrder[((i - 1) % Len(ExpectedCallOrder)) + 1]

\* A batch of two steps was generated: three notification rounds.
C8_Witness == instance /\ batchLog /= <<>> /\ Len(signalLog) >= 15

IsWiring(event) ==
    event.call \in {"thermostatRegistration", "barostatRegistration"}

\* Number of the calls registration i (connection j) of a kind in the log.
NrOfWiringCalls(kind, i, j) ==
    Cardinality({k \in 1..Len(buildLog) : buildLog[k] = Event(kind, "-", i, j)})

\* The controllers among the registrations whose tag is that of a connection.
Matched(functions, connections) ==
    {functions[i].controller :
        i \in {k \in 1..Len(functions) :
                  \E j \in 1..Len(connections) : connections[j].tag = functions[k].tag}}

\* C9: at build(), every thermostat registration function is applied to every
\* propagator-thermostat connection record and every barostat registration
\* function to every propagator-barostat connection record, never across the two
\* kinds, whatever the order of submission, and before any setup call and any
\* batch.
C9_DeferredWiring ==
    buildCalls >= 1 =>
        /\ \A i \in 1..Len(thermostatRegistrationFunctions_),
              j \in 1..Len(propagatorThermostatConnections_) :
                NrOfWiringCalls("thermostatRegistration", i, j) = 1
        /\ \A i \in 1..Len(barostatRegistrationFunctions_),
              j \in 1..Len(propagatorBarostatConnections_) :
                NrOfWiringCalls("barostatRegistration", i, j) = 1
        /\ Len(SelectSeq(buildLog, IsWiring)) =
              Len(thermostatRegistrationFunctions_) * Len(propagatorThermostatConnections_)
              + Len(barostatRegistrationFunctions_) * Len(propagatorBarostatConnections_)
        /\ \A k, l \in 1..Len(buildLog) :
              (k < l /\ IsWiring(buildLog[l])) => IsWiring(buildLog[k])
        /\ connected =
              Matched(thermostatRegistrationFunctions_, propagatorThermostatConnections_)
              \cup Matched(barostatRegistrationFunctions_, propagatorBarostatConnections_)

\* A build that applied a thermostat registration, submitted first, to two
\* connection records, submitted later, and went on to set the elements up.
C9_Witness ==
    /\ buildCalls >= 1
    /\ Len(thermostatRegistrationFunctions_) >= 1
    /\ Len(propagatorThermostatConnections_) >= 2
    /\ thermostatRegistrationFunctions_[1].controller.id
          < propagatorThermostatConnections_[1].propagator.id
    /\ \E k \in 1..Len(buildLog) : buildLog[k].call = "elementSetup"

\* Some registration function has no connection record of its kind with its tag.
Unmatched(functions, connections) ==
    \E i \in 1..Len(functions) :
        \A j \in 1..Len(connections) : connections[j].tag /= functions[i].tag

NrOfSetups(element) ==
    Cardinality({k \in 1..Len(buildLog) :
                    buildLog[k] = Event("elementSetup", element.type, element.id, 0)})

\* Number of setup calls on the signaller at a position of the signaller list.
NrOfSignallerSetups(i) ==
    Cardinality({k \in 1..Len(buildLog) :
                    buildLog[k] = Event("signaller.setup", signallerList_[i], i, 0)})

\* C11: before the first batch is generated, setup has been invoked exactly once
\* on every signaller of the signaller list and on every element of the element
\* call list, the checkpoint helper and the elements that are not in the
\* ownership list included, and it is not invoked again during the run.
C11_SetupOnCallList ==
    instance =>
        /\ \A i \in 1..Len(signallerList_) : NrOfSignallerSetups(i) = 1
        /\ \A i \in 1..Len(elementCallList_) : NrOfSetups(elementCallList_[i]) = 1

IsElementTeardown(event) == event.call = "elementTeardown"

\* C12: when the teardown task executes, every element of the element call list
\* receives teardown exactly once, in call-list order, and no element receives
\* teardown before the teardown task of the final batch runs.
C12_TeardownOnCallList ==
    /\ teardownLog /= <<>> =>
          LET calls == SelectSeq(teardownLog, IsElementTeardown)
          IN /\ Len(calls) = Len(elementCallList_)
             /\ \A i \in 1..Len(calls) :
                   calls[i] = Event("elementTeardown", elementCallList_[i].type,
                                    elementCallList_[i].id, 0)
    /\ teardownLog /= <<>> =>
          (runFinished_ /\ taskQueue_ /= <<>> /\ IsTeardown(Last(taskQueue_)))


\* start time + step x time increment, for a step of the run.
ExpectedTime(step) ==
    [hi |-> step.hi * inputrec.delta_t,
     lo |-> inputrec.init_t + step.lo * inputrec.delta_t]

\* Position of the last signaller call before position k of a log, 0 if none.
LastSignalBefore(log, k) ==
    LET before == {j \in 1..(k - 1) : log[j].call = "signal"}
    IN IF before = {} THEN 0 ELSE CHOOSE j \in before : \A i \in before : i <= j

IsScheduleTask(call) == call.call = "scheduleTask"

\* C13: for every step s for which the elements are asked for tasks, all
\* signallers have been notified with (s, time of s), in signaller-list order,
\* after the step counter became s and before the first element is asked; the
\* generation of a batch of n steps makes exactly n + 1 notification rounds,
\* also after a rewind.
C13_SignalledBeforeScheduled ==
    batchLog /= <<>> =>
        LET log == populateLog
            nSig == Len(signallerList_)
        IN /\ \A k \in 1..Len(log) :
                 log[k].call = "scheduleTask" =>
                    LET j == LastSignalBefore(log, k) IN
                    /\ j >= nSig
                    /\ \A i \in 1..nSig :
                          log[j - nSig + i] =
                             Call("signal", signallerList_[i], 0, log[k].step,
                                  ExpectedTime(log[k].step))
                    /\ \A m \in 1..(j - nSig) :
                          log[m].call \in {"signal", "scheduleTask"} =>
                             StepLess(log[m].step, log[k].step)
           /\ Len(SelectSeq(log, IsSignal)) = nSig * (CurrentBatch.nSteps + 1)
           /\ CurrentBatch.rounds = CurrentBatch.nSteps + 1
           /\ Len(SelectSeq(log, IsScheduleTask))
                 = Len(elementCallList_) * CurrentBatch.nSteps

\* A batch generated after a rewind, in a run that had a batch of two steps.
C13_Witness ==
    /\ batchLog /= <<>>
    /\ CurrentBatch.afterRewind
    /\ populateLog /= <<>>
    /\ \E i \in 1..Len(batchLog) : batchLog[i].nSteps >= 2 /\ batchLog[i].rounds = 3

IsHelperRun(call) ==
    call.call \in {"checkpointHelper.run", "pmeLoadBalanceHelper.run",
                   "domDecHelper.run"}

\* The helper runs a batch starting at step first is to make, in order.
ExpectedHelperRuns(first) ==
    <<Call("checkpointHelper.run", "-", 0, first, ExpectedTime(first))>>
    \o (IF usePmeLB
        THEN <<Call("pmeLoadBalanceHelper.run", "-", 0, first, ExpectedTime(first))>>
        ELSE <<>>)
    \o (IF useDomDec
        THEN <<Call("domDecHelper.run", "-", 0, first, ExpectedTime(first))>>
        ELSE <<>>)

\* C14: the checkpoint helper's run(step, time) is called exactly once per batch
\* generation, with the first step of the batch, after the initial notification
\* round and before any task of the batch is queued; it is followed by the run of
\* the load balancer and then of the domain decomposition helper when these
\* exist, each once per batch and not once per step; a helper that does not exist
\* is not called.
C14_HelpersOncePerBatch ==
    batchLog /= <<>> =>
        LET log == populateLog
            nSig == Len(signallerList_)
            expected == ExpectedHelperRuns(CurrentBatch.first)
        IN /\ SelectSeq(log, IsHelperRun) = expected
           /\ CurrentBatch.helperRuns = expected
           /\ \A k \in 1..nSig : log[k].call = "signal"
           /\ SubSeq(log, nSig + 1, nSig + Len(expected)) = expected
           /\ log[nSig + Len(expected) + 1] =
                 Call("registerRunFunction", "preStep", 0, ToInt(CurrentBatch.first),
                      ExpectedTime(CurrentBatch.first))
           /\ \A k \in 1..(nSig + Len(expected)) : log[k].call /= "registerRunFunction"

\* The second batch or a later one, of two steps or more, of a run with a load
\* balancer and domain decomposition.
C14_Witness ==
    /\ Len(batchLog) >= 2
    /\ CurrentBatch.nSteps >= 2
    /\ usePmeLB /\ useDomDec
    /\ Len(SelectSeq(populateLog, IsHelperRun)) = 3

\* Number of stoppingAfterCurrentStep queries made by pre-step tasks for a step.
NrOfStopQueries(queries, step) ==
    Cardinality({k \in 1..Len(queries) : queries[k] = step})

\* C15 as claimed: over the whole run, no step has the stop handler's
\* stoppingAfterCurrentStep query made for it by two executed pre-step tasks, the
\* step at which a rewind happens included.
C15_StopQueryOncePerStep ==
    PlainRun =>
        \A k \in 1..Len(handlerCalls.stopQueries) :
            NrOfStopQueries(handlerCalls.stopQueries, handlerCalls.stopQueries[k]) = 1

\* The driver runs a pre-step task.
RunsPreStep ==
    pending /\ ~pending' /\ lastReturn = "task" /\ CurrentTask.kind = "preStep"

\* C15 as amended: every executed pre-step task makes the query exactly once, for
\* the step it carries, and nothing else makes it on behalf of a pre-step task; a
\* step has the query made for it once, except the step at which a pre-step task
\* discarded the batch, for which the pre-step task of the regenerated batch makes
\* it a second time.
C15_StopQueryOncePerPreStep ==
    [][/\ RunsPreStep =>
             handlerCalls'.stopQueries =
                 Append(handlerCalls.stopQueries, CurrentTask.step)
       /\ ~RunsPreStep => handlerCalls'.stopQueries = handlerCalls.stopQueries
       /\ \A k \in 1..Len(handlerCalls'.stopQueries) :
             LET step == handlerCalls'.stopQueries[k]
                 n == NrOfStopQueries(handlerCalls'.stopQueries, step)
             IN /\ n <= 2
                /\ n = 2 => (rewind'.happened /\ rewind'.step = step)]_vars

\* The pre-step task of a regenerated batch has made the query for the step at
\* which the batch before it was discarded.
C15_Witness ==
    /\ rewind.happened
    /\ CurrentBatch.afterRewind
    /\ NrOfStopQueries(handlerCalls.stopQueries, rewind.step) = 2


\* The driver runs a post-step task.
RunsPostStep ==
    pending /\ ~pending' /\ lastReturn = "task" /\ CurrentTask.kind = "postStep"

\* C16: for every step whose post-step task executes, the reset handler's
\* resetCounters is called exactly once, with (step, step - initial step), and
\* nothing else calls it; executing a post-step task leaves the step counter, the
\* task queue, the cursor, the finished flag and the shared step facts unchanged.
C16_PostStepFrame ==
    [][/\ RunsPostStep =>
             /\ postStepLog' =
                   Append(postStepLog,
                          [step |-> CurrentTask.step,
                           stepsDone |-> StepMinus(CurrentTask.step,
                                                   inputrec.init_step)])
             /\ UNCHANGED <<step_, taskQueue_, taskIterator_, iteratorInvalidated,
                            runFinished_, signalHelper_>>
       /\ ~RunsPostStep => postStepLog' = postStepLog
       /\ \A i, j \in 1..Len(postStepLog') :
             postStepLog'[i].step = postStepLog'[j].step => i = j]_vars

\* The post-step task of the second step of a batch has just been run.
C16_Witness ==
    /\ Len(postStepLog) >= 2
    /\ ~pending /\ lastReturn = "task" /\ alive
    /\ taskQueue_ /= <<>>
    /\ CurrentTask.kind = "postStep"
    /\ CurrentTask.step = Last(postStepLog).step
    /\ step_ /= Plus(CurrentTask.step, 1)


\* A call of getNextTask: it hands a task to the driver, or returns the terminal
\* value, or aborts.
GetNextTaskStep ==
    \/ ~pending /\ pending'
    \/ /\ lastReturn' \in {"terminal", "abort"}
       /\ lastReturn' /= lastReturn \/ extraCalls' /= extraCalls

\* C17: getNextTask returns the tasks of a batch in batch order, each exactly
\* once and without skipping any.  The first call builds the first batch for the
\* initial step and returns its pre-step task; a new batch is built only when the
\* cursor has passed the last task of the current batch (or the batch was
\* discarded) and the run is not finished, and it replaces the old one; the
\* terminal value is returned only when the cursor has passed the last task and
\* the run is finished; getNextTask itself executes no task.
C17_TasksInOrder ==
    [][(PlainRun /\ ~terminalSeen /\ GetNextTaskStep) =>
          /\ UNCHANGED <<postStepLog, teardownLog, handlerCalls, rewind.happened>>
          /\ \/ /\ taskQueue_ /= <<>>
                /\ taskIterator_ + 1 < Len(taskQueue_)
                /\ taskQueue_' = taskQueue_
                /\ taskIterator_' = taskIterator_ + 1
                /\ lastReturn' = "task"
                /\ UNCHANGED <<step_, batchLog>>
             \/ /\ taskQueue_ = <<>> \/ taskIterator_ + 1 = Len(taskQueue_)
                /\ ~runFinished_
                /\ Len(batchLog') = Len(batchLog) + 1
                /\ Last(batchLog').first = step_
                /\ batchLog = <<>> => step_ = inputrec.init_step
                /\ taskIterator_' = 0
                /\ lastReturn' = "task"
                /\ taskQueue_'[1] = PreStepTask(step_, ExpectedTime(step_),
                                                taskQueue_'[1].isNSStep)
                /\ \A i \in 1..Len(taskQueue_') :
                      taskQueue_'[i].kind /= "teardown" =>
                         StepLeq(step_, taskQueue_'[i].step)
             \/ /\ taskQueue_ /= <<>>
                /\ taskIterator_ + 1 = Len(taskQueue_)
                /\ runFinished_
                /\ lastReturn' = "terminal"
                /\ UNCHANGED <<step_, taskQueue_, batchLog>>]_vars


\* C18: every batch generated covers at least one step: it holds at least one
\* pre-step task and one post-step task, whatever the neighbour-search interval
\* (1 included) and also when it starts at the last step, so that the task
\* returned after a regeneration exists.
C18_BatchNotEmpty ==
    /\ \A i \in 1..Len(batchLog) : batchLog[i].nSteps >= 1
    /\ (batchLog /= <<>> /\ ~iteratorInvalidated) =>
          /\ taskQueue_ /= <<>>
          /\ NrOfKind(taskQueue_, "preStep") >= 1
          /\ NrOfKind(taskQueue_, "postStep") >= 1
          /\ taskQueue_[1].kind = "preStep"
          /\ CurrentBatch.nSteps = NrOfKind(taskQueue_, "preStep")

\* With a neighbour-search interval of 1, a batch, not the first one, that
\* starts at the last step.
C18_Witness ==
    /\ inputrec.nstlist = 1
    /\ Len(batchLog) >= 2
    /\ CurrentBatch.first = signalHelper_.lastStep_
    /\ ~CurrentBatch.afterRewind
    /\ ~iteratorInvalidated
    /\ NrOfKind(taskQueue_, "preStep") = 1
    /\ IsTeardown(Last(taskQueue_))

\* C19: time is derived from the step: every signaller call, every scheduleTask
\* call and every helper run made for step s is given start time + s x time
\* step, the pre-step and post-step tasks of a step carry the time of that step,
\* and the helpers are given the time of the first step of the batch; no time is
\* carried over from an earlier step or batch, also after a rewind.
C19_TimeDerivedFromStep ==
    batchLog /= <<>> =>
        /\ \A k \in 1..Len(populateLog) :
              populateLog[k].call \notin {"registerRunFunction"} =>
                 populateLog[k].time = ExpectedTime(populateLog[k].step)
        /\ \A k \in 1..Len(populateLog) :
              IsHelperRun(populateLog[k]) =>
                 /\ populateLog[k].step = CurrentBatch.first
                 /\ populateLog[k].time = ExpectedTime(CurrentBatch.first)
        /\ \A i \in 1..Len(taskQueue_) :
              taskQueue_[i].kind /= "teardown" =>
                 /\ taskQueue_[i].time =
                       ExpectedTime(Plus(CurrentBatch.first,
                                         StepIndex(taskQueue_, i) - 1))
                 /\ CurrentBatch.first.hi = 0 =>
                       taskQueue_[i].time = ExpectedTime(taskQueue_[i].step)

\* A batch generated after a rewind at a step after the initial one, in a run
\* with a time step of 2.
C19_Witness ==
    /\ batchLog /= <<>>
    /\ CurrentBatch.afterRewind
    /\ inputrec.delta_t = 2
    /\ CurrentBatch.first.hi = 0
    /\ CurrentBatch.first.lo >= 2
    /\ taskQueue_ /= <<>>
    /\ taskQueue_[1].time.lo = 2 * CurrentBatch.first.lo


\* The stop handler gave this instance the same answers as the earlier one, up
\* to and including the generation of batch i: it held the same stop condition
\* at every generation, and the pre-step tasks run before got the same answers.
SameAnswers(i) ==
    \A j \in 1..i :
        /\ batchLog[j].stop = twin.batchLog[j].stop
        /\ batchLog[j].answersBefore = twin.batchLog[j].answersBefore

IsPreStep(task) == task.kind = "preStep"

\* C21: batch generation repeats the scheduling of a step while the advanced
\* step is neither the next re-partition step nor past the last step: a batch
\* ends right before the next re-partition step or at the last step, no step of
\* a batch but the first is a re-partition step, and only the first pre-step
\* task of a batch can carry the is-re-partition-step flag.
C21_BatchEndsAtBoundary ==
    /\ \A i \in 1..Len(batchLog) :
          LET pre == SelectSeq(batchLog[i].tasks, IsPreStep)
          IN /\ Len(pre) = batchLog[i].nSteps
             /\ \A k \in 2..Len(pre) : ~pre[k].isNSStep
    /\ taskQueue_ /= <<>> =>
          /\ step_ = Plus(CurrentBatch.first, CurrentBatch.nSteps)
          /\ step_ = signalHelper_.nextNSStep_ \/ StepLess(signalHelper_.lastStep_, step_)
          /\ \A k \in 1..(CurrentBatch.nSteps - 1) :
                LET step == Plus(CurrentBatch.first, k)
                IN /\ ~IsRepartitionStep(step)
                   /\ step /= signalHelper_.nextNSStep_
                   /\ StepLeq(step, signalHelper_.lastStep_)

\* The second batch of a run, of two steps, the first of which is flagged as a
\* re-partition step; it ends right before the next re-partition step, which is
\* not past the last step.
C21_Witness ==
    /\ Len(batchLog) = 2
    /\ taskQueue_ /= <<>>
    /\ CurrentBatch.nSteps = 2
    /\ CurrentBatch.tasks[1].isNSStep
    /\ step_ = signalHelper_.nextNSStep_
    /\ StepLeq(step_, signalHelper_.lastStep_)


\* C22: executing a pre-step task for step s has exactly two outcomes.  If the
\* stop handler reports stop-after-current-step and s differs from the recorded
\* last step, the task queue is emptied, the step counter is set to s, neither
\* the reset signal nor the stop signal is armed and the recorded stop-handler
\* step and re-partition flag stay as they are.  Otherwise the queue and the step
\* counter are unchanged, the reset signal is armed, and the recorded
\* stop-handler step and flag are set to s and its flag before the stop signal is
\* armed.
C22_PreStepOutcomes ==
    [][RunsPreStep =>
          LET s == CurrentTask.step
              flag == CurrentTask.isNSStep
              stop == Last(handlerCalls'.stopAnswers)
          IN /\ Len(handlerCalls'.stopAnswers) = Len(handlerCalls.stopAnswers) + 1
             /\ IF stop /\ s /= signalHelper_.lastStep_
                THEN /\ taskQueue_' = <<>>
                     /\ step_' = s
                     /\ handlerCalls'.resetSignal = handlerCalls.resetSignal
                     /\ handlerCalls'.stopSignal = handlerCalls.stopSignal
                     /\ handlerCalls'.stopSignalSaw = handlerCalls.stopSignalSaw
                     /\ UNCHANGED <<stophandlerCurrentStep_, stophandlerIsNSStep_>>
                ELSE /\ UNCHANGED <<taskQueue_, step_>>
                     /\ handlerCalls'.resetSignal = handlerCalls.resetSignal + 1
                     /\ handlerCalls'.stopSignal = handlerCalls.stopSignal + 1
                     /\ stophandlerCurrentStep_' = s
                     /\ stophandlerIsNSStep_' = flag
                     /\ handlerCalls'.stopSignalSaw = [step |-> s, isNSStep |-> flag]]_vars

\* Pre-step tasks have had all three cases: one ran without a stop request, one
\* discarded its batch, and the pre-step task of the regenerated batch, for the
\* step now recorded as the last one, armed the signals although the stop
\* handler reported a stop.
C22_Witness ==
    /\ rewind.happened
    /\ Len(handlerCalls.stopAnswers) >= 3
    /\ ~handlerCalls.stopAnswers[1]
    /\ Last(handlerCalls.stopAnswers)
    /\ handlerCalls.stopSignalSaw.step = rewind.step
    /\ handlerCalls.stopSignalSaw.step = signalHelper_.lastStep_
    /\ handlerCalls.stopSignal >= 2
    /\ taskQueue_ /= <<>>


\* C23: the steps scheduled over a run are contiguous.  Within a batch,
\* consecutive pre-step tasks belong to consecutive steps; the first batch starts
\* at the initial step; the first step of a batch is one more than the last step
\* of the batch before it when no rewind happened in between, and after a rewind
\* it is a step of the discarded batch, so that no step from the initial step on
\* is skipped; the post-step tasks executed are those of consecutive steps, and
\* no step has its post-step task executed twice.
C23_StepsContiguous ==
    /\ \A i \in 1..Len(batchLog) :
          LET pre == SelectSeq(batchLog[i].tasks, IsPreStep)
          IN \A k \in 2..Len(pre) : pre[k].step = Plus(pre[k - 1].step, 1)
    /\ batchLog /= <<>> => batchLog[1].first = inputrec.init_step
    /\ \A i \in 2..Len(batchLog) :
          IF batchLog[i].afterRewind
          THEN \E k \in 0..(batchLog[i - 1].nSteps - 1) :
                  batchLog[i].first = Plus(batchLog[i - 1].first, k)
          ELSE batchLog[i].first = Plus(batchLog[i - 1].first, batchLog[i - 1].nSteps)
    /\ \A k \in 2..Len(postStepLog) :
          postStepLog[k].step = Plus(postStepLog[k - 1].step, 1)
    /\ \A i, j \in 1..Len(postStepLog) :
          postStepLog[i].step = postStepLog[j].step => i = j


\* C24: in every reachable state the run is marked finished if and only if the
\* step counter exceeds the recorded last step, and whenever the run is marked
\* finished the final entry of the current batch is the teardown task; the
\* finished flag does not stay set over a queue emptied by a rewind.
C24_FinishedIffPastLastStep ==
    instance =>
        /\ runFinished_ <=> StepLess(signalHelper_.lastStep_, step_)
        /\ runFinished_ => (taskQueue_ /= <<>> /\ IsTeardown(Last(taskQueue_)))


\* A signaller of the given name was notified of the step in the calls of a log.
Notified(log, name, step) ==
    \E k \in 1..Len(log) : log[k] = Call("signal", name, 0, step, ExpectedTime(step))

\* C25: the shared step facts (recorded last step, next re-partition step) are
\* written only by the callbacks handed to the last-step and re-partition
\* signallers: they change only while a batch is generated, and then to a step
\* of which the signaller concerned was notified in that generation.  The
\* pre-step, post-step and teardown tasks, and the calls of getNextTask that
\* generate no batch, leave them as they are; a last step forced after a rewind
\* comes from the notification made for the regenerated batch.
C25_StepFactsWrittenBySignallers ==
    [][/\ signalHelper_' /= signalHelper_ =>
             /\ instance
             /\ Len(batchLog') = Len(batchLog) + 1
             /\ populateLog' /= <<>>
       /\ signalHelper_'.lastStep_ /= signalHelper_.lastStep_ =>
             Notified(populateLog', "lastStep", signalHelper_'.lastStep_)
       /\ signalHelper_'.nextNSStep_ /= signalHelper_.nextNSStep_ =>
             Notified(populateLog', "neighborSearch", signalHelper_'.nextNSStep_)
       /\ (pending /\ ~pending') => signalHelper_' = signalHelper_
       /\ batchLog' = batchLog => signalHelper_' = signalHelper_]_vars

\* A batch regenerated after a rewind at a step after the initial one and before
\* the final one: the last-step signaller was notified of that step and the step
\* is recorded as the last step.
C25_Witness ==
    /\ batchLog /= <<>>
    /\ CurrentBatch.afterRewind
    /\ taskQueue_ /= <<>>
    /\ CurrentBatch.first.hi = 0
    /\ CurrentBatch.first.lo >= 1
    /\ signalHelper_.lastStep_ = CurrentBatch.first
    /\ signalHelper_.lastStep_ /= StopStep
    /\ Notified(populateLog, "lastStep", CurrentBatch.first)


\* The elements stored through addElementToSimulatorAlgorithm, in storage order.
StoredElements == storedLog

\* C26: the element call list of a built algorithm is the checkpoint helper,
\* then the free-energy element if free-energy perturbation is active, then the
\* call list of the builder in the order the elements were declared, then the
\* trajectory element; the ownership list holds the free-energy element (if
\* any), the stored elements in storage order and the trajectory element, each
\* exactly once.
C26_CallListComposition ==
    instance =>
        LET n == Len(StoredElements)
            f == IF inputrec.efep THEN 1 ELSE 0
        IN /\ Len(elementCallList_) = n + f + 2
           /\ elementCallList_[1] = CheckpointHelper
           /\ inputrec.efep => elementCallList_[2] = FreeEnergyElement
           /\ \A i \in 1..n : elementCallList_[1 + f + i] = StoredElements[i]
           /\ callList_ = StoredElements
           /\ Last(elementCallList_) = TrajectoryElement
           /\ Len(elementsOwnershipList_) = n + f + 1
           /\ inputrec.efep => elementsOwnershipList_[1] = FreeEnergyElement
           /\ \A i \in 1..n : elementsOwnershipList_[f + i] = StoredElements[i]
           /\ Last(elementsOwnershipList_) = TrajectoryElement
           /\ \A i, j \in 1..Len(elementsOwnershipList_) :
                 elementsOwnershipList_[i].id = elementsOwnershipList_[j].id => i = j

\* An algorithm built with free-energy perturbation from a builder to which a
\* thermostat was added before the propagator it controls.
C26_Witness ==
    /\ instance
    /\ inputrec.efep
    /\ Len(callList_) >= 2
    /\ callList_[1].type = "thermostat"
    /\ callList_[2].type = "propagator"
    /\ Len(elementCallList_) >= 5


\* The element addresses elementExists is asked about: the stored elements, an
\* element like the first stored one at another address, the elements of the
\* data objects, elements the algorithm gets from build(), and the null pointer.
QueryCandidates ==
    Range(storedLog)
    \cup (IF storedLog = <<>> THEN {}
          ELSE {MkElement(storedLog[1].type, storedLog[1].tag, Len(storedLog) + 1)})
    \cup {StatePropagatorDataElement, EnergyDataElement, FreeEnergyDataElement,
          CheckpointHelper, TrajectoryElement, NullElement}

\* The element of the state-propagator data, of the energy data, or of the
\* free-energy data when that exists.
IsDataElement(e) ==
    \/ e \in {StatePropagatorDataElement, EnergyDataElement}
    \/ (inputrec.efep /\ e = FreeEnergyDataElement)

\* Position of the first call of addElementToSetupTeardownList with the element.
FirstCallWith(e) ==
    CHOOSE k \in 1..Len(setupTeardownCalls) :
        /\ setupTeardownCalls[k].id = e.id
        /\ \A j \in 1..(k - 1) : setupTeardownCalls[j].id /= e.id

\* The setup/teardown list holds the address of every element it was given, each
\* once, in the order in which they were first given.
SetupTeardownListDeduplicated ==
    /\ \A i, j \in 1..Len(setupAndTeardownList_) :
          setupAndTeardownList_[i].id = setupAndTeardownList_[j].id => i = j
    /\ Range(setupAndTeardownList_) = Range(setupTeardownCalls)
    /\ \A i, j \in 1..Len(setupAndTeardownList_) :
          i < j => FirstCallWith(setupAndTeardownList_[i])
                      < FirstCallWith(setupAndTeardownList_[j])

\* build() has moved the stored elements out of the builder.
ElementsMovedOut == \E k \in 1..Len(buildLog) : buildLog[k].call = "simulatorSetup"

C28_EventuallyTerminal ==
    /\ instance ~> terminalSeen
    /\ [][(RunsPreStep /\ rewind'.pending /\ ~rewind.pending /\ rewind.happened)
             => rewind'.step /= rewind.step]_vars


\* The step that the task at index j of a batch was queued for: the step counter
\* at the start of the batch, advanced once per step queued before it.
RealStep(batch, j) == Plus(batch.first, StepIndex(batch.tasks, j) - 1)

\* C29: the step bound into a pre-step or post-step task is the 64-bit step
\* counter at the moment the task was queued, also above 2^31 - 1: the step
\* passed to the stop check, the step a rewind restores and the
\* neighbour-search flag of the pre-step task are those of that step, not those
\* of the step reduced to 32 bits.
C29_TasksCarryRealStep ==
    /\ \A i \in 1..Len(batchLog) :
          \A j \in 1..Len(batchLog[i].tasks) :
             LET task == batchLog[i].tasks[j]
                 real == RealStep(batchLog[i], j)
             IN /\ task.kind \in {"preStep", "postStep"} => task.step = real
                /\ task.kind = "preStep" =>
                      (task.isNSStep <=> do_per_step(real, inputrec.nstlist))
    /\ \A k \in 1..Len(handlerCalls.stopQueries) :
          StepLeq(inputrec.init_step, handlerCalls.stopQueries[k])
    /\ rewind.happened => StepLeq(inputrec.init_step, rewind.step)
    /\ \A k \in 1..Len(postStepLog) :
          StepLeq(inputrec.init_step, postStepLog[k].step)


\* The steps whose post-step task was executed.
StepsPostStepped == {postStepLog[i].step : i \in 1..Len(postStepLog)}

\* C30: when the teardown task runs, the number of steps reported as done (step
\* counter minus initial step) is the number of distinct steps whose post-step
\* task was executed, in runs that end at the final step and in runs that end
\* early through a rewind caused by a stop.
C30_StepsDoneCountsPostSteps ==
    \A k \in 1..Len(teardownLog) :
        teardownLog[k].call = "set_nsteps_done" =>
            MkStep(teardownLog[k].a, teardownLog[k].b)
                = MkStep(0, Cardinality(StepsPostStepped))


\* The errors with which a first build() can fail part-way.
PartWayErrors == {"SetupError: callback not set", "MissingElementConnectionError"}

\* C31: the builder is marked as built at the start of build(): a first build()
\* that fails part-way (the check-bonded-interactions callback requested before
\* it was set, a registration that finds no connection) returns no instance and
\* leaves the builder marked, and every later build() on that builder fails with
\* the setup error 'more than once', whatever is submitted in between, so the
\* builder never delivers an instance.
C31_FailedBuildSpendsBuilder ==
    [][/\ (buildCalls = 0 /\ buildCalls' = 1) =>
             /\ algorithmHasBeenBuilt_'
             /\ instance' <=> buildResult' = "ok"
             /\ ~instance' => buildResult' \in PartWayErrors
       /\ (buildCalls >= 1 /\ ~instance) =>
             /\ ~instance'
             /\ algorithmHasBeenBuilt_'
             /\ buildCalls' = buildCalls + 1 =>
                   buildResult' = "SetupError: built more than once"]_vars

\* The first build() failed for want of the callback, the callback was set
\* afterwards, and the second build() was refused: nothing but the mark stands
\* between the builder and an instance.
C31_Witness ==
    /\ buildCalls = 2
    /\ ~instance
    /\ buildResult = "SetupError: built more than once"
    /\ algorithmHasBeenBuilt_
    /\ useDomDec /\ checkBondedInteractionsCallback_
    /\ ~Unmatched(thermostatRegistrationFunctions_, propagatorThermostatConnections_)
    /\ ~Unmatched(barostatRegistrationFunctions_, propagatorBarostatConnections_)

====
